---- MODULE Spec2Model ----
(***************************************************************************)
(* Speech acquisition and recognition pipeline of the voice bot:           *)
(* audio_processor.py (metadata, two-tier cache, download),                *)
(* speech_recognizer.py (language cache, API client with retries),         *)
(* speech_pipeline.py (orchestration, metrics) and the voice handler of    *)
(* main.py.  Every coroutine is modelled as a sequence of steps, one per   *)
(* external call it awaits; pc[p] is the position of logical task p and    *)
(* loc[p] holds its arguments, locals and the calls it has made so far.    *)
(***************************************************************************)
EXTENDS Integers, Sequences, FiniteSets, TLC

(***************************************************************************)
(* Bounds of the model.                                                    *)
(***************************************************************************)
\* number of top-level calls a behaviour makes
MaxCalls == 2
\* number of messages a behaviour of the whole pipeline handles
MaxMessages == 1
\* number of users that send messages
MaxUsers == 1
\* number of attachments of FileTable that are sent as messages
MaxFiles == 2
\* number of direct calls a behaviour makes on UserLanguageCache
MaxLangCalls == 4
MaxTranscribes == 1
MaxMetaCalls == 2
MaxFullCalls == 1
MaxPairCalls == 2

(***************************************************************************)
(* Program constants.                                                      *)
(***************************************************************************)
max_attempts_4 == 3 + 1
\* speech_recognizer.py:165  max_attempts = 3
max_attempts == 3
\* audio_processor.py:177  len(self.memory_cache) < 10
MemoryCacheLimit == 10
\* confidences are kept in units of 10^-8: ONE stands for 1.0, so that the
\* blends of update_user_language stay exact over the updates a behaviour makes
ONE == 100000000
\* speech_recognizer.py:73  confidence > 0.7
ConfidenceThreshold == 70000000

\* speech_recognizer.py:47
priority_languages == {"ru", "en"}

\* language value standing for Python's None
NoLang == "None"

(***************************************************************************)
(* The attachments Telegram knows.  file_path is None (hasPath = FALSE) or *)
(* a path whose suffix is given; file_size 0 stands for None or 0; data is *)
(* what download_file delivers for the attachment.                         *)
(***************************************************************************)
FileTable ==
  << [hasPath |-> TRUE,  suffix |-> ".ogg", file_size |-> 2, data |-> <<1, 1>>],
     [hasPath |-> TRUE,  suffix |-> ".mp3", file_size |-> 2, data |-> <<2, 2>>],
     [hasPath |-> TRUE,  suffix |-> ".OGA", file_size |-> 1, data |-> <<3>>],
     [hasPath |-> TRUE,  suffix |-> ".ogg", file_size |-> 0, data |-> <<4>>],
     [hasPath |-> TRUE,  suffix |-> ".m4a", file_size |-> 0, data |-> <<>>],
     [hasPath |-> TRUE,  suffix |-> ".mp4", file_size |-> 1, data |-> <<6>>],
     [hasPath |-> TRUE,  suffix |-> ".wav", file_size |-> 3, data |-> <<7, 7, 7>>],
     [hasPath |-> FALSE, suffix |-> "",     file_size |-> 1, data |-> <<8>>],
     [hasPath |-> TRUE,  suffix |-> "",     file_size |-> 1, data |-> <<9>>],
     [hasPath |-> TRUE,  suffix |-> ".ogg", file_size |-> 1, data |-> <<10>>],
     [hasPath |-> TRUE,  suffix |-> ".mp3", file_size |-> 1, data |-> <<11>>] >>

FileIds == 1..Len(FileTable)
Users == 1..MaxUsers
\* the logical tasks; the sequential specifications run task 1 only
Procs == {1, 2}

\* an optional bytes value: Python's None is [present |-> FALSE]
NoBytes == [present |-> FALSE, data |-> <<>>]
SomeBytes(d) == [present |-> TRUE, data |-> d]
\* Python truthiness of an Optional[bytes]
Truthy(v) == v.present /\ Len(v.data) > 0

(***************************************************************************)
(* State.                                                                  *)
(***************************************************************************)
VARIABLES
  pc,            \* pc[p]: position of task p in the coroutine it runs
  loc,           \* loc[p]: arguments, locals and observed calls of task p
  redis_client,  \* TRUE iff the components were built with a Redis client
  audio_redis,   \* primary store, keys audio_cache:<file_id>
  memory_cache,  \* CacheManager.memory_cache
  lang_redis,    \* primary store, keys user_lang:<user_id>
  lang_memory,   \* UserLanguageCache.memory_cache
  pipeline_metrics,  \* SpeechPipeline.pipeline_metrics
  monitor,       \* PerformanceMonitor.metrics
  ncalls,        \* top-level calls started so far
  prev           \* summary of the top-level call completed before the current one

cacheVars == <<redis_client, audio_redis, memory_cache>>
langVars == <<lang_redis, lang_memory>>
metricVars == <<pipeline_metrics, monitor>>
callVars == <<ncalls, prev>>
vars == <<pc, loc, cacheVars, langVars, metricVars, callVars>>

\* API outcomes of one client.audio.transcriptions.create call
Outcomes == {"ok", "RateLimitError", "APITimeoutError", "APIError", "Exception"}
\* texts the API returns: len characters of content, ws surrounding blanks
Texts == {[len |-> 0, ws |-> 0], [len |-> 50, ws |-> 1], [len |-> 120, ws |-> 0]}
NoText == [len |-> 0, ws |-> 0]
\* language attribute of a response; NoLang when the response has none
RespLangs == {"ru", "de", NoLang}
\* languages a result can carry
DetectedLangs == {"ru", "de", "unknown"}
\* language arguments a caller passes
LangArgs == {NoLang, "ru", "de"}
\* temperatures in tenths: 0 is 0.0, 2 is 0.2
Temperatures == {0, 2}

NoError == [type |-> "none", user_message_sent |-> FALSE]
\* a quotient of two integers, kept as the pair it is computed from
Ratio(num, den) == [num |-> num, den |-> den]
AtMost(r, n) == r.num <= n * r.den

NoMeta == [format |-> "none", codec |-> "None", is_optimal |-> FALSE, size |-> 0]
NoParams == [language |-> NoLang, temperature |-> 0]
NoResult == [text |-> NoText, language |-> NoLang]
\* an absent language record, and a stored one (confidence in units of ONE)
NoLangData == [present |-> FALSE, language |-> NoLang, confidence |-> 0]
LangData(language, confidence) ==
  [present |-> TRUE, language |-> language, confidence |-> confidence]

\* no run of disagreeing observations is under way
NoStreak == [from |-> NoLang, to |-> NoLang, n |-> 0]
NoStreaks == [u \in Users |-> NoStreak]

\* locals of a task that runs nothing
Fresh ==
  [ entry |-> "none", file_id |-> 0, user_id |-> 0,
    hasBot |-> FALSE, hasChat |-> FALSE,
    \* process_audio
    meta |-> NoMeta, cache_hit |-> FALSE, audio |-> NoBytes,
    n_direct |-> 0, n_convert |-> 0, wrote |-> "none",
    cache_raised |-> FALSE, audio_outcome |-> "none",
    meta_ok |-> FALSE, redis_get |-> "none", redis_set |-> "none",
    fetch |-> "none",
    \* whether CacheManager.get looked into memory_cache
    mem_read |-> FALSE,
    \* the File that get_file gave to a direct analyze_file_metadata call
    tg_file |-> [hasPath |-> FALSE, suffix |-> "", file_size |-> 0],
    \* FileMetadata.estimated_duration, in seconds
    estimated_duration |-> Ratio(0, 1),
    \* whether the file stream_convert created under temp_input_path exists
    temp_input_exists |-> FALSE,
    \* transcribe_audio
    language |-> NoLang, temperature |-> 0, attempt |-> 0,
    api_calls |-> 0, delays |-> <<>>, sent |-> NoParams,
    api_result |-> NoResult, asr_outcome |-> "none", asr_error |-> NoError,
    responses |-> <<>>, direct_notices |-> 0,
    \* HybridSpeechRecognizer.transcribe: context.language_hint, the hint
    \* chosen, and whether the file that staged the payload exists
    context_hint |-> NoLang, temp_file_exists |-> FALSE,
    language_hint |-> NoLang, existing |-> NoLangData, lang_data |-> NoLangData,
    tr_outcome |-> "none", tr_error |-> NoError, text |-> NoText,
    \* UserLanguageCache: arguments of update_user_language, result of
    \* get_user_language, and the run of consecutive disagreeing observations
    detected_language |-> NoLang, confidence |-> 0, lang_result |-> NoLang,
    streak |-> NoStreaks,
    \* whether a preference was stored for the user when the message arrived
    had_pref |-> FALSE, began_in_sleep |-> FALSE,
    \* process_voice_message and handle_voice_message
    audio_time |-> 0, speech_time |-> 0,
    pipe_outcome |-> "none", user_notified |-> FALSE,
    handler_notices |-> 0, deleted |-> FALSE ]

NoPrev == [entry |-> "none", file_id |-> 0, outcome |-> "none",
           audio |-> NoBytes, wrote |-> "none", cache_hit |-> FALSE,
           n_direct |-> 0, n_convert |-> 0]

Init ==
  /\ pc = [p \in Procs |-> "idle"]
  /\ loc = [p \in Procs |-> Fresh]
  /\ redis_client \in BOOLEAN
  /\ audio_redis = [f \in FileIds |-> NoBytes]
  /\ memory_cache = [f \in FileIds |-> NoBytes]
  /\ lang_redis = [u \in Users |-> NoLangData]
  /\ lang_memory = [u \in Users |-> NoLangData]
  /\ pipeline_metrics = [total_processed |-> 0, total_time |-> 0,
                         audio_processing_time |-> 0,
                         speech_recognition_time |-> 0,
                         success_count |-> 0, error_count |-> 0]
  /\ monitor = [total_requests |-> 0, total_processing_time |-> 0,
                api_calls |-> 0,
                language_distribution |-> [g \in DetectedLangs |-> 0],
                user_requests |-> [u \in Users |-> 0]]
  /\ ncalls = 0
  /\ prev = NoPrev

\* The answers the environment gives to a call made for the invocation with
\* locals l.  A sequential specification draws them from all of S.  The
\* two-task specification explores every interleaving of two
\* process_voice_message calls and draws the answers that only fill in data
\* (which text, which clock reading, whether a store answers) from {one};
\* the answers that choose the path of the call (an attachment that cannot
\* be fetched, the kind of API response) stay free.
Answers(l, S, one) ==
  IF l.entry = "process_voice_message" THEN {one} ELSE S

\* a task may start a top-level call when it runs nothing
CanStart(p, bound) == pc[p] \in {"idle", "done"} /\ ncalls < bound

\* the calls on the audio components, of which the next call keeps a summary
AudioEntries == {"process_audio", "cache_get", "cache_set"}
Summary(l) ==
  [entry |-> l.entry, file_id |-> l.file_id, outcome |-> l.audio_outcome,
   audio |-> l.audio, wrote |-> l.wrote, cache_hit |-> l.cache_hit,
   n_direct |-> l.n_direct, n_convert |-> l.n_convert]

Begin(p, l, at, bound) ==
  /\ CanStart(p, bound)
  /\ prev' = IF pc[p] = "done" /\ loc[p].entry \in AudioEntries
             THEN Summary(loc[p]) ELSE NoPrev
  /\ ncalls' = ncalls + 1
  /\ loc' = [loc EXCEPT ![p] = l]
  /\ pc' = [pc EXCEPT ![p] = at]

Goto(p, l, at) ==
  /\ loc' = [loc EXCEPT ![p] = l]
  /\ pc' = [pc EXCEPT ![p] = at]

(***************************************************************************)
(* FormatOptimizer (audio_processor.py:38-130).                            *)
(***************************************************************************)
\* audio_processor.py:41-48
TELEGRAM_NATIVE_FORMATS ==
  [ogg |-> [codec |-> "opus", optimal |-> TRUE],
   oga |-> [codec |-> "opus", optimal |-> TRUE],
   mp4 |-> [codec |-> "aac", optimal |-> FALSE],
   mp3 |-> [codec |-> "mp3", optimal |-> FALSE],
   wav |-> [codec |-> "pcm", optimal |-> FALSE],
   m4a |-> [codec |-> "aac", optimal |-> FALSE]]

\* the extension taken without lower()
Extension_no_lower(suffix) ==
  CASE suffix = ".ogg" -> "ogg"
    [] suffix = ".OGA" -> "OGA"
    [] suffix = ".mp3" -> "mp3"
    [] suffix = ".mp4" -> "mp4"
    [] suffix = ".wav" -> "wav"
    [] suffix = ".m4a" -> "m4a"
    [] OTHER -> ""

\* Path(file_path).suffix.lower().lstrip('.') on the suffixes of FileTable
Extension(suffix) ==
  CASE suffix = ".ogg" -> "ogg"
    [] suffix = ".OGA" -> "oga"
    [] suffix = ".mp3" -> "mp3"
    [] suffix = ".mp4" -> "mp4"
    [] suffix = ".wav" -> "wav"
    [] suffix = ".m4a" -> "m4a"
    [] OTHER -> ""

\* _detect_format_from_path: format and optimal flag of a path's suffix
DetectFormatFromPath(suffix) ==
  LET extension == Extension(suffix) IN
  [format |-> IF extension = "" THEN "unknown" ELSE extension,
   codec |-> IF extension \in DOMAIN TELEGRAM_NATIVE_FORMATS
             THEN TELEGRAM_NATIVE_FORMATS[extension].codec
             ELSE "None",
   optimal |-> IF extension \in DOMAIN TELEGRAM_NATIVE_FORMATS
               THEN TELEGRAM_NATIVE_FORMATS[extension].optimal
               ELSE FALSE]

\* bytes per second of a format in _estimate_duration (lines 122-129):
\* 64, 128, 96 and 1411 kbps, and 96 kbps for every other format
BytesPerSecond(format) ==
  CASE format = "ogg" -> (64 * 1024) \div 8
    [] format = "mp3" -> (128 * 1024) \div 8
    [] format = "mp4" -> (96 * 1024) \div 8
    [] format = "wav" -> (1411 * 1024) \div 8
    [] OTHER -> (96 * 1024) \div 8

\* an estimate without the clamp of line 130
EstimateDuration_unclamped(file_size, format) ==
  IF file_size <= 0 THEN Ratio(0, 1)
  ELSE Ratio(file_size, BytesPerSecond(format))

\* _estimate_duration (lines 115-130): max(0.1, min(estimated, 600.0))
EstimateDuration(file_size, format) ==
  LET bps == BytesPerSecond(format) IN
  IF file_size <= 0 THEN Ratio(0, 1)
  ELSE IF file_size <= (bps - 1) \div 10 THEN Ratio(1, 10)
  ELSE IF file_size > 600 * bps THEN Ratio(600, 1)
  ELSE Ratio(file_size, bps)

\* fallback metadata that claims the optimal format
FallbackMetadata_optimal ==
  [format |-> "unknown", codec |-> "None", is_optimal |-> TRUE, size |-> 0]
\* the metadata returned when the lookup raised (lines 82-90); codec keeps
\* its default None
FallbackMetadata ==
  [format |-> "unknown", codec |-> "None", is_optimal |-> FALSE, size |-> 0]

\* whether the try block of analyze_file_metadata completes (lines 56-80)
LookupSucceeds(file_id, getFileOk) ==
  /\ getFileOk
  /\ FileTable[file_id].hasPath
  /\ FileTable[file_id].file_size # 0

\* estimated_duration of the metadata analyze_file_metadata returns for the
\* File that get_file gave; the fallback keeps the dataclass default 0.0
EstimatedDuration(tg_file, getFileOk) ==
  IF getFileOk /\ tg_file.hasPath /\ tg_file.file_size # 0
  THEN EstimateDuration(tg_file.file_size,
                        DetectFormatFromPath(tg_file.suffix).format)
  ELSE Ratio(0, 1)

\* analyze_file_metadata: never raises
AnalyzeFileMetadataResult(file_id, getFileOk) ==
  IF LookupSucceeds(file_id, getFileOk)
  THEN LET info == DetectFormatFromPath(FileTable[file_id].suffix) IN
       [format |-> info.format, codec |-> info.codec,
        is_optimal |-> info.optimal,
        size |-> FileTable[file_id].file_size]
  ELSE FallbackMetadata

(***************************************************************************)
(* CacheManager (audio_processor.py:133-179).                              *)
(***************************************************************************)
\* len(self.memory_cache)
MemoryCacheSize == Cardinality({f \in FileIds : memory_cache[f].present})

\* outcomes a call to the primary store can have: it answers or it raises
RedisOutcomes == IF redis_client THEN {TRUE, FALSE} ELSE {TRUE}

\* get that never consults the in-process map
CacheGet_no_fallback(file_id, redisOk) ==
  IF redis_client /\ redisOk /\ Truthy(audio_redis[file_id])
  THEN [value |-> audio_redis[file_id], raised |-> FALSE, mem_read |-> FALSE]
  ELSE [value |-> NoBytes, raised |-> FALSE, mem_read |-> FALSE]

\* CacheManager.get: value returned, whether the call raised, whether the
\* in-process map was consulted
CacheGet(file_id, redisOk) ==
  IF redis_client /\ redisOk /\ Truthy(audio_redis[file_id])
  THEN [value |-> audio_redis[file_id], raised |-> FALSE, mem_read |-> FALSE]
  ELSE [value |-> memory_cache[file_id], raised |-> FALSE, mem_read |-> TRUE]

\* set that lets the primary store's error escape
CacheSet_raises(file_id, audio_data, redisOk) ==
  IF redis_client /\ redisOk
  THEN [redis |-> [audio_redis EXCEPT ![file_id] = SomeBytes(audio_data)],
        memory |-> memory_cache, wrote |-> "redis", raised |-> FALSE]
  ELSE IF redis_client
       THEN [redis |-> audio_redis, memory |-> memory_cache,
             wrote |-> "none", raised |-> TRUE]
       ELSE [redis |-> audio_redis,
             memory |-> [memory_cache EXCEPT ![file_id] = SomeBytes(audio_data)],
             wrote |-> "memory", raised |-> FALSE]

\* set that writes the primary store under a key get never reads
CacheSet_other_key(file_id, audio_data, redisOk) ==
  IF redis_client /\ redisOk
  THEN [redis |-> audio_redis,
        memory |-> memory_cache, wrote |-> "redis", raised |-> FALSE]
  ELSE [redis |-> audio_redis,
        memory |-> [memory_cache EXCEPT ![file_id] = SomeBytes(audio_data)],
        wrote |-> "memory", raised |-> FALSE]

\* set that stores the payload without its last byte
CacheSet_truncated(file_id, audio_data, redisOk) ==
  LET kept == SubSeq(audio_data, 1, Len(audio_data) - 1) IN
  IF redis_client /\ redisOk
  THEN [redis |-> [audio_redis EXCEPT ![file_id] = SomeBytes(kept)],
        memory |-> memory_cache, wrote |-> "redis", raised |-> FALSE]
  ELSE [redis |-> audio_redis,
        memory |-> [memory_cache EXCEPT ![file_id] = SomeBytes(kept)],
        wrote |-> "memory", raised |-> FALSE]

\* set that writes the in-process map as well as the primary store
CacheSet_both(file_id, audio_data, redisOk) ==
  IF redis_client /\ redisOk
  THEN [redis |-> [audio_redis EXCEPT ![file_id] = SomeBytes(audio_data)],
        memory |-> [memory_cache EXCEPT ![file_id] = SomeBytes(audio_data)],
        wrote |-> "redis", raised |-> FALSE]
  ELSE IF MemoryCacheSize < MemoryCacheLimit
       THEN [redis |-> audio_redis,
             memory |-> [memory_cache EXCEPT ![file_id] = SomeBytes(audio_data)],
             wrote |-> "memory", raised |-> FALSE]
       ELSE [redis |-> audio_redis, memory |-> memory_cache,
             wrote |-> "dropped", raised |-> FALSE]

\* set that admits a key whatever the size of the in-process map
CacheSet_no_limit(file_id, audio_data, redisOk) ==
  IF redis_client /\ redisOk
  THEN [redis |-> [audio_redis EXCEPT ![file_id] = SomeBytes(audio_data)],
        memory |-> memory_cache, wrote |-> "redis", raised |-> FALSE]
  ELSE [redis |-> audio_redis,
        memory |-> [memory_cache EXCEPT ![file_id] = SomeBytes(audio_data)],
        wrote |-> "memory", raised |-> FALSE]

\* CacheManager.set: the two tiers after the call, where the value landed,
\* whether the call raised
CacheSet(file_id, audio_data, redisOk) ==
  IF redis_client /\ redisOk
  THEN [redis |-> [audio_redis EXCEPT ![file_id] = SomeBytes(audio_data)],
        memory |-> memory_cache, wrote |-> "redis", raised |-> FALSE]
  ELSE IF MemoryCacheSize < MemoryCacheLimit
       THEN [redis |-> audio_redis,
             memory |-> [memory_cache EXCEPT ![file_id] = SomeBytes(audio_data)],
             wrote |-> "memory", raised |-> FALSE]
       ELSE [redis |-> audio_redis, memory |-> memory_cache,
             wrote |-> "dropped", raised |-> FALSE]

(***************************************************************************)
(* MemoryOptimizedProcessor and HybridAudioProcessor.process_audio         *)
(* (audio_processor.py:182-324).                                           *)
(***************************************************************************)
\* download_direct / stream_convert deliver the attachment's bytes unless
\* get_file fails, the file has no path, or download_file fails
FetchSucceeds(file_id, getFileOk, downloadOk) ==
  getFileOk /\ FileTable[file_id].hasPath /\ downloadOk

\* stream_convert lines 225-245: whether the temporary file is left behind
\* when the call ends.  NamedTemporaryFile(delete=False) creates it once
\* get_file gave a path; only the os.unlink of line 243, reached after the
\* download and the read, removes it, and an OSError of os.unlink is ignored.
TempInputLeft(file_id, getFileOk, downloadOk, readOk, unlinkOk) ==
  /\ getFileOk /\ FileTable[file_id].hasPath
  /\ ~(downloadOk /\ readOk /\ unlinkOk)

\* routing of process_audio step 3: TRUE is the fast path
TakesFastPath(meta) == meta.is_optimal

\* where the caller of process_audio continues
AfterProcessAudio(l) ==
  IF l.entry = "process_audio" THEN "done" ELSE "pv_audio_returned"

\* the caller sees the outcome of process_audio, not its locals
LeaveProcessAudio(l) ==
  IF l.entry = "process_audio" THEN l
  ELSE [l EXCEPT !.meta = NoMeta, !.meta_ok = FALSE, !.cache_hit = FALSE,
                 !.wrote = "none", !.redis_get = "none", !.redis_set = "none",
                 !.fetch = "none", !.temp_input_exists = FALSE,
                 !.mem_read = FALSE,
                 !.estimated_duration = Ratio(0, 1)]

\* process_audio leaves by return or by raise AudioProcessingError
AudioReturn(p, l) ==
  Goto(p, LeaveProcessAudio([l EXCEPT !.audio_outcome = "ok"]),
       AfterProcessAudio(l))
\* a failure that is swallowed: the call returns no bytes instead of raising
AudioRaise_swallowed(p, l) ==
  Goto(p, LeaveProcessAudio([l EXCEPT !.audio_outcome = "ok",
                                      !.audio = NoBytes]),
       AfterProcessAudio(l))
AudioRaise(p, l) ==
  Goto(p, LeaveProcessAudio([l EXCEPT !.audio_outcome = "AudioProcessingError",
                                      !.audio = NoBytes]),
       AfterProcessAudio(l))

\* a caller invokes process_audio directly
StartProcessAudioOf(p, ids, bound) ==
  /\ \E file_id \in ids :
       Begin(p, [Fresh EXCEPT !.entry = "process_audio", !.file_id = file_id],
             "pa_analyze", bound)
  /\ UNCHANGED <<cacheVars, langVars, metricVars>>

StartProcessAudio(p, bound) == StartProcessAudioOf(p, FileIds, bound)

CallProcessAudio(p) == StartProcessAudio(p, MaxCalls)

\* a caller invokes CacheManager.get directly
CallCacheGet(p) ==
  /\ \E file_id \in FileIds, redisOk \in RedisOutcomes :
       LET r == CacheGet(file_id, redisOk) IN
       Begin(p, [Fresh EXCEPT !.entry = "cache_get", !.file_id = file_id,
                              !.audio = r.value, !.cache_raised = r.raised,
                              !.mem_read = r.mem_read,
                              !.redis_get = IF ~redis_client THEN "none"
                                            ELSE IF redisOk THEN "ok" ELSE "failed",
                              !.cache_hit = Truthy(r.value),
                              !.audio_outcome = IF r.raised THEN "raised" ELSE "ok"],
             "done", MaxCalls)
  /\ UNCHANGED <<cacheVars, langVars, metricVars>>

\* step 1 (line 274): analyze_file_metadata
AnalyzeFileMetadata(p) ==
  /\ pc[p] = "pa_analyze"
  /\ \E getFileOk \in Answers(loc[p], BOOLEAN, TRUE) :
       Goto(p, [loc[p] EXCEPT
                  !.meta = AnalyzeFileMetadataResult(loc[p].file_id, getFileOk),
                  !.estimated_duration =
                     EstimatedDuration(FileTable[loc[p].file_id], getFileOk),
                  !.meta_ok = LookupSucceeds(loc[p].file_id, getFileOk)],
            "pa_cache_get")
  /\ UNCHANGED <<cacheVars, langVars, metricVars, callVars>>

\* step 2 (lines 279-282): cache lookup, return on a hit
CheckCache(p) ==
  /\ pc[p] = "pa_cache_get"
  /\ \E redisOk \in Answers(loc[p], RedisOutcomes, TRUE) :
       LET r == CacheGet(loc[p].file_id, redisOk)
           l == [loc[p] EXCEPT !.cache_raised = r.raised,
                               !.mem_read = r.mem_read,
                               !.redis_get = IF ~redis_client THEN "none"
                                             ELSE IF redisOk THEN "ok" ELSE "failed"]
       IN IF r.raised THEN AudioRaise(p, l)
          ELSE IF Truthy(r.value)
               THEN AudioReturn(p, [l EXCEPT !.cache_hit = TRUE, !.audio = r.value])
               ELSE Goto(p, l, "pa_fetch")
  /\ UNCHANGED <<cacheVars, langVars, metricVars, callVars>>

\* step 3 (lines 285-288): download_direct or stream_convert
FetchAudio(p) ==
  /\ pc[p] = "pa_fetch"
  /\ \E getFileOk \in BOOLEAN,
        downloadOk \in Answers(loc[p], BOOLEAN, TRUE),
        readOk \in Answers(loc[p], BOOLEAN, TRUE),
        unlinkOk \in Answers(loc[p], BOOLEAN, TRUE) :
       LET fast == TakesFastPath(loc[p].meta)
           l == [loc[p] EXCEPT !.n_direct = IF fast THEN @ + 1 ELSE @,
                               !.n_convert = IF fast THEN @ ELSE @ + 1,
                               !.temp_input_exists =
                                  ~fast /\ TempInputLeft(loc[p].file_id, getFileOk,
                                                         downloadOk, readOk, unlinkOk)]
       IN IF FetchSucceeds(l.file_id, getFileOk, downloadOk) /\ (fast \/ readOk)
          THEN Goto(p, [l EXCEPT !.fetch = "ok",
                                 !.audio = SomeBytes(FileTable[l.file_id].data)],
                    "pa_cache_set")
          ELSE AudioRaise(p, [l EXCEPT !.fetch = "failed"])
  /\ UNCHANGED <<cacheVars, langVars, metricVars, callVars>>

\* steps 4-5 (lines 291-296): cache the result and return it
StoreInCache(p) ==
  /\ pc[p] = "pa_cache_set"
  /\ \E redisOk \in Answers(loc[p], RedisOutcomes, TRUE) :
       LET r == CacheSet(loc[p].file_id, loc[p].audio.data, redisOk)
           l == [loc[p] EXCEPT !.wrote = r.wrote, !.cache_raised = r.raised,
                               !.redis_set = IF ~redis_client THEN "none"
                                             ELSE IF redisOk THEN "ok" ELSE "failed"]
       IN /\ audio_redis' = r.redis
          /\ memory_cache' = r.memory
          /\ IF r.raised THEN AudioRaise(p, l) ELSE AudioReturn(p, l)
  /\ UNCHANGED <<redis_client, langVars, metricVars, callVars>>

ProcessAudioStep(p) ==
  \/ AnalyzeFileMetadata(p)
  \/ CheckCache(p)
  \/ FetchAudio(p)
  \/ StoreInCache(p)

NextAudio ==
  \/ CallProcessAudio(1)
  \/ CallCacheGet(1)
  \/ ProcessAudioStep(1)

SpecAudio == Init /\ [][NextAudio]_vars

\* file sizes and path suffixes that get_file reports to a direct call of
\* analyze_file_metadata; size 0 stands for a missing file_size as well
FileSizes == {0, 1, 819, 820, 1228, 1229, 1048576, 4915200, 4915201,
              7372800, 9830400, 9830401, 108364800, 108364801}
Suffixes == {".ogg", ".OGA", ".mp3", ".mp4", ".wav", ".m4a", ""}

\* a caller invokes analyze_file_metadata directly (lines 53-90)
CallAnalyzeFileMetadata(p) ==
  /\ \E hasPath \in BOOLEAN, suffix \in Suffixes, file_size \in FileSizes,
        getFileOk \in BOOLEAN :
       LET tg_file == [hasPath |-> hasPath, suffix |-> suffix,
                       file_size |-> file_size]
           ok == getFileOk /\ hasPath /\ file_size # 0
           info == DetectFormatFromPath(suffix) IN
       Begin(p, [Fresh EXCEPT
                   !.entry = "analyze_file_metadata",
                   !.tg_file = tg_file,
                   !.meta_ok = ok,
                   !.meta = IF ok
                            THEN [format |-> info.format, codec |-> info.codec,
                                  is_optimal |-> info.optimal, size |-> file_size]
                            ELSE FallbackMetadata,
                   !.estimated_duration = EstimatedDuration(tg_file, getFileOk)],
             "done", MaxMetaCalls)
  /\ UNCHANGED <<cacheVars, langVars, metricVars>>

NextMeta == CallAnalyzeFileMetadata(1)

SpecMeta == Init /\ [][NextMeta]_vars

(***************************************************************************)
(* CacheManager used on its own: set and get called directly.  The         *)
(* in-process map starts as k earlier set calls leave it when the primary  *)
(* store is absent or failing: the first k attachments are stored.         *)
(***************************************************************************)
MemoryKeys == {f \in FileIds : memory_cache[f].present}

InitCache ==
  /\ pc = [p \in Procs |-> "idle"]
  /\ loc = [p \in Procs |-> Fresh]
  /\ redis_client \in BOOLEAN
  /\ audio_redis = [f \in FileIds |-> NoBytes]
  /\ \E k \in 0..MemoryCacheLimit :
       memory_cache = [f \in FileIds |->
                         IF f <= k THEN SomeBytes(FileTable[f].data) ELSE NoBytes]
  /\ lang_redis = [u \in Users |-> NoLangData]
  /\ lang_memory = [u \in Users |-> NoLangData]
  /\ pipeline_metrics = [total_processed |-> 0, total_time |-> 0,
                         audio_processing_time |-> 0,
                         speech_recognition_time |-> 0,
                         success_count |-> 0, error_count |-> 0]
  /\ monitor = [total_requests |-> 0, total_processing_time |-> 0,
                api_calls |-> 0,
                language_distribution |-> [g \in DetectedLangs |-> 0],
                user_requests |-> [u \in Users |-> 0]]
  /\ ncalls = 0
  /\ prev = NoPrev

\* a caller invokes CacheManager.set directly with the attachment's bytes
CallCacheSet(p) ==
  /\ \E file_id \in FileIds, redisOk \in RedisOutcomes :
       LET r == CacheSet(file_id, FileTable[file_id].data, redisOk) IN
       /\ audio_redis' = r.redis
       /\ memory_cache' = r.memory
       /\ Begin(p, [Fresh EXCEPT !.entry = "cache_set", !.file_id = file_id,
                                 !.audio = SomeBytes(FileTable[file_id].data),
                                 !.wrote = r.wrote, !.cache_raised = r.raised,
                                 !.redis_set = IF ~redis_client THEN "none"
                                               ELSE IF redisOk THEN "ok" ELSE "failed",
                                 !.audio_outcome = IF r.raised THEN "raised" ELSE "ok"],
                "done", MaxCalls)
  /\ UNCHANGED <<redis_client, langVars, metricVars>>

NextCache ==
  \/ CallCacheSet(1)
  \/ CallCacheGet(1)

SpecCache == InitCache /\ [][NextCache]_vars

\* process_audio called on a CacheManager whose in-process map already
\* holds entries, up to its limit
NextAudioFull ==
  \/ StartProcessAudio(1, MaxFullCalls)
  \/ ProcessAudioStep(1)

SpecAudioFull == InitCache /\ [][NextAudioFull]_vars

(***************************************************************************)
(* OpenAIAPIClient.transcribe_audio (speech_recognizer.py:156-243).        *)
(***************************************************************************)
OpenAISpeechRecognitionError_sent ==
  [type |-> "OpenAISpeechRecognitionError", user_message_sent |-> TRUE]
\* the exception classes of speech_recognizer.py:441-453
OpenAISpeechRecognitionError ==
  [type |-> "OpenAISpeechRecognitionError", user_message_sent |-> FALSE]
UserMessageAlreadySentError ==
  [type |-> "UserMessageAlreadySentError", user_message_sent |-> TRUE]
\* what a failing bot.send_message raises
SendMessageError == [type |-> "TelegramAPIError", user_message_sent |-> FALSE]

\* params of the API call: the language is added only for a priority language
BuildParams_any_language(language, temperature) ==
  [language |-> language, temperature |-> temperature]

BuildParams(language, temperature) ==
  [language |-> IF language # NoLang /\ language \in priority_languages
                THEN language ELSE NoLang,
   temperature |-> temperature]

\* getattr(response, 'language', language or 'unknown')
ResponseLanguage(respLang, language) ==
  IF respLang # NoLang THEN respLang
  ELSE IF language # NoLang THEN language ELSE "unknown"

\* delay = 2 ** attempt if attempt > 0 else 0
RateLimitDelay(attempt) == IF attempt > 0 THEN 2 ^ attempt ELSE 0

\* the try block of lines 213-216: what it raises
RaisedInNotifyTry(sendOk) ==
  IF sendOk THEN UserMessageAlreadySentError ELSE SendMessageError

\* "except Exception as send_error" (line 217) catches every Exception subclass
CaughtAsSendError(exc) ==
  exc.type \in {"TelegramAPIError", "OpenAISpeechRecognitionError",
                "UserMessageAlreadySentError"}

\* the error that leaves the bot-and-chat branch of the last rate-limited attempt
NotifyBranchError(sendOk) ==
  IF CaughtAsSendError(RaisedInNotifyTry(sendOk))
  THEN OpenAISpeechRecognitionError
  ELSE RaisedInNotifyTry(sendOk)

\* where the caller of transcribe_audio continues
AfterTranscribeAudio(l) ==
  IF l.entry = "transcribe_audio" THEN "done" ELSE "tr_api_returned"

\* the caller sees the outcome of transcribe_audio, not its locals
LeaveTranscribeAudio(l) ==
  IF l.entry = "transcribe_audio" THEN l
  ELSE [l EXCEPT !.attempt = 0, !.delays = <<>>, !.responses = <<>>,
                 !.sent = NoParams, !.language = NoLang, !.temperature = 0]

AsrRaise(p, l, err) ==
  Goto(p, LeaveTranscribeAudio([l EXCEPT !.asr_outcome = "error",
                                         !.asr_error = err]),
       AfterTranscribeAudio(l))

\* the API call of one attempt, with the response kind it gets
Called(l, kind) ==
  [l EXCEPT !.api_calls = @ + 1,
            !.sent = BuildParams(l.language, l.temperature),
            !.responses = Append(@, kind)]

\* a caller invokes transcribe_audio directly
CallTranscribeAudio(p) ==
  \E language \in LangArgs, temperature \in Temperatures,
     hasBot \in BOOLEAN, hasChat \in BOOLEAN :
    Begin(p, [Fresh EXCEPT !.entry = "transcribe_audio",
                           !.language = language, !.temperature = temperature,
                           !.hasBot = hasBot, !.hasChat = hasChat],
          "asr_call", MaxCalls)
    /\ UNCHANGED <<cacheVars, langVars, metricVars>>

\* lines 168-194: the call succeeds and the result is returned
ApiOk(p) ==
  /\ pc[p] = "asr_call"
  /\ loc[p].attempt < max_attempts
  /\ \E text \in Answers(loc[p], Texts, [len |-> 50, ws |-> 1]),
        respLang \in Answers(loc[p], RespLangs, "ru") :
       LET l == Called(loc[p], "ok") IN
       Goto(p, LeaveTranscribeAudio(
                 [l EXCEPT !.asr_outcome = "ok",
                           !.api_result =
                              [text |-> text,
                               language |-> ResponseLanguage(respLang, l.language)]]),
            AfterTranscribeAudio(l))
  /\ UNCHANGED <<cacheVars, langVars, metricVars, callVars>>

\* lines 196-223: openai.RateLimitError
ApiRateLimit(p) ==
  /\ pc[p] = "asr_call"
  /\ loc[p].attempt < max_attempts
  /\ LET l == Called(loc[p], "RateLimitError") IN
       IF l.attempt < max_attempts - 1
       THEN LET delay == RateLimitDelay(l.attempt)
                l2 == [l EXCEPT !.delays = Append(@, delay)] IN
            IF delay > 0
            THEN Goto(p, l2, "asr_sleep")
            ELSE Goto(p, [l2 EXCEPT !.attempt = @ + 1], "asr_call")
       ELSE IF l.hasBot /\ l.hasChat
            THEN Goto(p, l, "asr_notify")
            ELSE AsrRaise(p, l, OpenAISpeechRecognitionError)
  /\ UNCHANGED <<cacheVars, langVars, metricVars, callVars>>

\* a retry delay that backs off like the one of rate limits
ErrorRetryDelay_backoff(attempt) == 2 ^ attempt

\* lines 228 and 235: asyncio.sleep(1), whatever the attempt
ErrorRetryDelay(attempt) == 1

\* lines 225-237: openai.APITimeoutError and openai.APIError
ApiTimeoutOrError(p) ==
  /\ pc[p] = "asr_call"
  /\ loc[p].attempt < max_attempts
  /\ \E kind \in Answers(loc[p], {"APITimeoutError", "APIError"},
                          "APITimeoutError") :
       LET l == Called(loc[p], kind) IN
       IF l.attempt < max_attempts - 1
       THEN Goto(p, [l EXCEPT !.delays = Append(@, ErrorRetryDelay(l.attempt))],
                 "asr_sleep")
       ELSE AsrRaise(p, l, OpenAISpeechRecognitionError)
  /\ UNCHANGED <<cacheVars, langVars, metricVars, callVars>>

\* a client that treats any other exception like a timeout
ApiUnexpected_retries(p) ==
  /\ pc[p] = "asr_call"
  /\ loc[p].attempt < max_attempts
  /\ LET l == Called(loc[p], "Exception") IN
       IF l.attempt < max_attempts - 1
       THEN Goto(p, [l EXCEPT !.delays = Append(@, ErrorRetryDelay(l.attempt))],
                 "asr_sleep")
       ELSE AsrRaise(p, l, OpenAISpeechRecognitionError)
  /\ UNCHANGED <<cacheVars, langVars, metricVars, callVars>>

\* lines 239-241: any other exception
ApiUnexpected(p) ==
  /\ pc[p] = "asr_call"
  /\ loc[p].attempt < max_attempts
  /\ AsrRaise(p, Called(loc[p], "Exception"), OpenAISpeechRecognitionError)
  /\ UNCHANGED <<cacheVars, langVars, metricVars, callVars>>

\* asyncio.sleep returns and the loop goes to its next attempt
SleepDone(p) ==
  /\ pc[p] = "asr_sleep"
  /\ Goto(p, [loc[p] EXCEPT !.attempt = @ + 1], "asr_call")
  /\ UNCHANGED <<cacheVars, langVars, metricVars, callVars>>

\* lines 211-220: bot.send_message and what is raised after it
NotifyUser(p) ==
  /\ pc[p] = "asr_notify"
  /\ \E sendOk \in Answers(loc[p], BOOLEAN, TRUE) :
       AsrRaise(p, [loc[p] EXCEPT !.direct_notices =
                                     IF sendOk THEN @ + 1 ELSE @],
                NotifyBranchError(sendOk))
  /\ UNCHANGED <<cacheVars, langVars, metricVars, callVars>>

TranscribeAudioStep(p) ==
  \/ ApiOk(p)
  \/ ApiRateLimit(p)
  \/ ApiTimeoutOrError(p)
  \/ ApiUnexpected(p)
  \/ SleepDone(p)
  \/ NotifyUser(p)

NextASR == CallTranscribeAudio(1) \/ TranscribeAudioStep(1)

SpecASR == Init /\ [][NextASR]_vars

(***************************************************************************)
(* UserLanguageCache (speech_recognizer.py:51-146).                        *)
(***************************************************************************)
Min(a, b) == IF a <= b THEN a ELSE b

\* get_user_language that accepts a confidence of exactly 0.7
GetUserLanguage_at_threshold(user_id, redisOk) ==
  IF /\ redis_client /\ redisOk
     /\ lang_redis[user_id].present
     /\ lang_redis[user_id].confidence >= ConfidenceThreshold
  THEN lang_redis[user_id].language
  ELSE IF /\ lang_memory[user_id].present
          /\ lang_memory[user_id].confidence >= ConfidenceThreshold
       THEN lang_memory[user_id].language
       ELSE NoLang

\* get_user_language: the stored language when its confidence exceeds 0.7
GetUserLanguage(user_id, redisOk) ==
  IF /\ redis_client /\ redisOk
     /\ lang_redis[user_id].present
     /\ lang_redis[user_id].confidence > ConfidenceThreshold
  THEN lang_redis[user_id].language
  ELSE IF /\ lang_memory[user_id].present
          /\ lang_memory[user_id].confidence > ConfidenceThreshold
       THEN lang_memory[user_id].language
       ELSE NoLang

\* update_user_language lines 95-109: the record the update starts from
ExistingData(user_id, redisOk) ==
  IF redis_client /\ redisOk /\ lang_redis[user_id].present
  THEN lang_redis[user_id]
  ELSE lang_memory[user_id]

\* an update that blends 0.8 of the stored and 0.2 of the observed confidence
NewLangData_blend_82(existing, detected_language, confidence) ==
  IF existing.present
  THEN IF existing.language = detected_language
       THEN LangData(detected_language,
                     Min(ONE, (existing.confidence * 8 + confidence * 2) \div 10))
       ELSE LangData(detected_language, (confidence * 5) \div 10)
  ELSE LangData(detected_language, (confidence * 8) \div 10)

\* an update that doubles the observed confidence on a change of language
NewLangData_reset_doubles(existing, detected_language, confidence) ==
  IF existing.present
  THEN IF existing.language = detected_language
       THEN LangData(detected_language,
                     Min(ONE, (existing.confidence * 9 + confidence * 1) \div 10))
       ELSE LangData(detected_language, confidence * 2)
  ELSE LangData(detected_language, (confidence * 8) \div 10)

\* an update that treats a change of language like a new user
NewLangData_reset_08(existing, detected_language, confidence) ==
  IF existing.present
  THEN IF existing.language = detected_language
       THEN LangData(detected_language,
                     Min(ONE, (existing.confidence * 9 + confidence * 1) \div 10))
       ELSE LangData(detected_language, (confidence * 8) \div 10)
  ELSE LangData(detected_language, (confidence * 8) \div 10)

\* update_user_language lines 111-130: the record the update stores
NewLangData(existing, detected_language, confidence) ==
  IF existing.present
  THEN IF existing.language = detected_language
       THEN LangData(detected_language,
                     Min(ONE, (existing.confidence * 9 + confidence * 1) \div 10))
       ELSE LangData(detected_language, (confidence * 5) \div 10)
  ELSE LangData(detected_language, (confidence * 8) \div 10)

\* the confidence taken from the length of the stripped text
ObservationConfidence_stripped(text) == Min(ONE, text.len * (ONE \div 100))

\* _post_process_result line 427: min(1.0, len(text) / 100.0)
ObservationConfidence(text) == Min(ONE, (text.len + text.ws) * (ONE \div 100))

\* text.strip()
Strip(text) == [len |-> text.len, ws |-> 0]

(***************************************************************************)
(* HybridSpeechRecognizer.transcribe (speech_recognizer.py:338-438).       *)
(***************************************************************************)
\* elapsed seconds the clocks can show for the audio and the speech phase
Elapsed == {[audio |-> 0, speech |-> 1], [audio |-> 1, speech |-> 2]}

\* where the caller of transcribe continues
AfterTranscribe(l) ==
  IF l.entry = "transcribe" THEN "done" ELSE "pv_speech_returned"

\* the caller sees the outcome of transcribe, not its locals
LeaveTranscribe(l) ==
  IF l.entry = "transcribe" THEN l
  ELSE [l EXCEPT !.temp_file_exists = FALSE, !.context_hint = NoLang]

\* lines 390-392: whatever was raised leaves as OpenAISpeechRecognitionError
TranscribeRaise(p, l) ==
  Goto(p, LeaveTranscribe([l EXCEPT !.tr_outcome = "error",
                                    !.tr_error = OpenAISpeechRecognitionError]),
       AfterTranscribe(l))

\* context.language_hint values a caller passes; NoLang stands for no
\* context or no hint in it
ContextHints == {NoLang, "ru", "de"}

\* a caller invokes transcribe directly, with or without a user, and with
\* or without the bot and chat_id of a notification channel
CallTranscribe(p) ==
  /\ \E user_id \in Users \cup {0}, context_hint \in ContextHints,
        notify \in BOOLEAN :
       Begin(p, [Fresh EXCEPT !.entry = "transcribe", !.user_id = user_id,
                              !.context_hint = context_hint,
                              !.hasBot = notify, !.hasChat = notify],
             "tr_hint", MaxTranscribes)
  /\ UNCHANGED <<cacheVars, langVars, metricVars>>

\* _get_language_hint lines 400-411: the user's cached language when it is a
\* priority language, else the context hint as it is, else none
LanguageHint(cached_lang, context_hint) ==
  IF cached_lang # NoLang /\ cached_lang \in priority_languages
  THEN cached_lang
  ELSE context_hint

\* step 1 (line 352): _get_language_hint; the pipeline's context has no hint
GetLanguageHint(p) ==
  /\ pc[p] = "tr_hint"
  /\ \E redisOk \in Answers(loc[p], RedisOutcomes, TRUE) :
       LET l == loc[p]
           cached_lang == IF l.user_id # 0
                          THEN GetUserLanguage(l.user_id, redisOk) ELSE NoLang
           hint == LanguageHint(cached_lang, l.context_hint)
       IN Goto(p, [l EXCEPT !.language_hint = hint], "tr_stage")
  /\ UNCHANGED <<cacheVars, langVars, metricVars, callVars>>

\* step 2 (lines 355-357): the payload is written to a temporary file; a
\* failure to write is wrapped by the except clause of line 390
StagePayload(p) ==
  /\ pc[p] = "tr_stage"
  /\ \E writeOk \in Answers(loc[p], BOOLEAN, TRUE) :
       LET l == loc[p] IN
       IF writeOk
       THEN Goto(p, [l EXCEPT !.language = l.language_hint,
                              !.temperature =
                                 IF l.language_hint # NoLang THEN 0 ELSE 2,
                              !.temp_file_exists = TRUE],
                 "asr_call")
       ELSE TranscribeRaise(p, [l EXCEPT !.temp_file_exists = TRUE])
  /\ UNCHANGED <<cacheVars, langVars, metricVars, callVars>>

\* lines 362-392: transcribe_audio has returned or raised; an error of any
\* kind is replaced by a new OpenAISpeechRecognitionError (line 392)
ApiReturned(p) ==
  /\ pc[p] = "tr_api_returned"
  /\ LET l == loc[p] IN
     IF l.asr_outcome = "error"
     THEN TranscribeRaise(p, [l EXCEPT !.temp_file_exists = FALSE])
     ELSE \E t \in Answers(l, Elapsed, [audio |-> 0, speech |-> 1]) :
            LET detected == l.api_result.language
                l2 == [l EXCEPT !.audio_time = t.audio, !.speech_time = t.speech] IN
            IF l.user_id # 0 /\ detected # "unknown"
            THEN Goto(p, [l2 EXCEPT !.detected_language = detected,
                                    !.confidence =
                                       ObservationConfidence(l.api_result.text)],
                      "tr_lang_read")
            ELSE Goto(p, l2, "tr_monitor")
  /\ UNCHANGED <<cacheVars, langVars, metricVars, callVars>>

\* update_user_language lines 95-130: read the stored record, compute the new
UpdateLanguageRead(p) ==
  /\ pc[p] = "tr_lang_read"
  /\ \E redisOk \in Answers(loc[p], RedisOutcomes, TRUE) :
       LET l == loc[p]
           existing == ExistingData(l.user_id, redisOk)
       IN Goto(p, [l EXCEPT !.existing = existing,
                            !.lang_data =
                               NewLangData(existing, l.detected_language,
                                           l.confidence)],
               "tr_lang_write")
  /\ UNCHANGED <<cacheVars, langVars, metricVars, callVars>>

\* an update that keeps the in-process copy only when the primary store
\* did not take the record
UpdateLanguageWrite_redis_first(p) ==
  /\ pc[p] = "tr_lang_write"
  /\ \E redisOk \in Answers(loc[p], RedisOutcomes, TRUE) :
       LET l == loc[p] IN
       /\ lang_redis' = IF redis_client /\ redisOk
                        THEN [lang_redis EXCEPT ![l.user_id] = l.lang_data]
                        ELSE lang_redis
       /\ lang_memory' = IF redis_client /\ ~redisOk
                         THEN lang_memory
                         ELSE [lang_memory EXCEPT ![l.user_id] = l.lang_data]
       /\ IF l.entry = "update_user_language"
          THEN Goto(p, l, "done")
          ELSE Goto(p, [l EXCEPT !.existing = NoLangData,
                                 !.lang_data = NoLangData,
                                 !.detected_language = NoLang,
                                 !.confidence = 0],
                    "tr_monitor")
  /\ UNCHANGED <<cacheVars, metricVars, callVars>>

\* update_user_language lines 132-146: store the new record
UpdateLanguageWrite(p) ==
  /\ pc[p] = "tr_lang_write"
  /\ \E redisOk \in Answers(loc[p], RedisOutcomes, TRUE) :
       LET l == loc[p] IN
       /\ lang_redis' = IF redis_client /\ redisOk
                        THEN [lang_redis EXCEPT ![l.user_id] = l.lang_data]
                        ELSE lang_redis
       /\ lang_memory' = [lang_memory EXCEPT ![l.user_id] = l.lang_data]
       /\ IF l.entry = "update_user_language"
          THEN Goto(p, l, "done")
          ELSE Goto(p, [l EXCEPT !.existing = NoLangData,
                                 !.lang_data = NoLangData,
                                 !.detected_language = NoLang,
                                 !.confidence = 0],
                    "tr_monitor")
  /\ UNCHANGED <<cacheVars, metricVars, callVars>>

\* lines 376-383: record_transcription, then the result is returned
RecordTranscription(p) ==
  /\ pc[p] = "tr_monitor"
  /\ LET l == loc[p]
         detected == l.api_result.language IN
     /\ monitor' =
          IF l.user_id = 0 THEN monitor
          ELSE [monitor EXCEPT
                  !.total_requests = @ + 1,
                  !.total_processing_time = @ + l.speech_time,
                  !.api_calls = @ + 1,
                  !.language_distribution[detected] = @ + 1,
                  !.user_requests[l.user_id] = @ + 1]
     /\ Goto(p, LeaveTranscribe([l EXCEPT !.tr_outcome = "ok",
                                          !.text = Strip(l.api_result.text),
                                          !.temp_file_exists = FALSE]),
             AfterTranscribe(l))
  /\ UNCHANGED <<cacheVars, langVars, pipeline_metrics, callVars>>

TranscribeStep(p) ==
  \/ GetLanguageHint(p)
  \/ StagePayload(p)
  \/ ApiReturned(p)
  \/ UpdateLanguageRead(p)
  \/ UpdateLanguageWrite(p)
  \/ RecordTranscription(p)

\* transcribe called directly
NextTranscribe ==
  \/ CallTranscribe(1)
  \/ TranscribeStep(1)
  \/ TranscribeAudioStep(1)

SpecTranscribe == Init /\ [][NextTranscribe]_vars

(***************************************************************************)
(* UserLanguageCache used on its own: get_user_language and                *)
(* update_user_language called directly.                                   *)
(***************************************************************************)
\* observation confidences a caller passes: 0.5, 0.875 and 1.0
Confidences == {ONE \div 2, (ONE \div 8) * 7, ONE}
\* languages a caller observes
ObservedLangs == {"ru", "de"}

\* the language get_user_language returns whatever the primary store does,
\* NoLang when there is none or when the answer depends on the store
Hint(user_id) ==
  IF \A ok \in RedisOutcomes :
       GetUserLanguage(user_id, ok) = GetUserLanguage(user_id, TRUE)
  THEN GetUserLanguage(user_id, TRUE)
  ELSE NoLang

\* the run of consecutive observations that disagree with the hint, after
\* one more observation of language
StreakAfter(s, hint, language) ==
  IF s.n > 0 /\ language = s.to
  THEN [s EXCEPT !.n = @ + 1]
  ELSE IF hint # NoLang /\ language # hint
       THEN [from |-> hint, to |-> language, n |-> 1]
       ELSE NoStreak

\* a caller invokes update_user_language directly
StartUpdateUserLanguage(p, bound) ==
  /\ \E user_id \in Users, language \in ObservedLangs, confidence \in Confidences :
       Begin(p, [Fresh EXCEPT
                   !.entry = "update_user_language", !.user_id = user_id,
                   !.detected_language = language, !.confidence = confidence,
                   !.streak = [loc[p].streak EXCEPT
                                 ![user_id] = StreakAfter(@, Hint(user_id), language)]],
             "tr_lang_read", bound)
  /\ UNCHANGED <<cacheVars, langVars, metricVars>>

CallUpdateUserLanguage(p) == StartUpdateUserLanguage(p, MaxLangCalls)

\* a caller invokes get_user_language directly
CallGetUserLanguage(p) ==
  /\ \E user_id \in Users, redisOk \in RedisOutcomes :
       Begin(p, [Fresh EXCEPT
                   !.entry = "get_user_language", !.user_id = user_id,
                   !.lang_result = GetUserLanguage(user_id, redisOk),
                   !.redis_get = IF ~redis_client THEN "none"
                                 ELSE IF redisOk THEN "ok" ELSE "failed",
                   !.streak = loc[p].streak],
             "done", MaxLangCalls)
  /\ UNCHANGED <<cacheVars, langVars, metricVars>>

NextLang ==
  \/ CallUpdateUserLanguage(1)
  \/ CallGetUserLanguage(1)
  \/ UpdateLanguageRead(1)
  \/ UpdateLanguageWrite(1)

SpecLang == Init /\ [][NextLang]_vars

(***************************************************************************)
(* Concurrent tasks on one event loop.  A task gives up control only at an *)
(* await that suspends: the calls on the primary store, on the bot and on  *)
(* the API, and asyncio.sleep.  Without a primary store                    *)
(* update_user_language has no such await and runs in one piece.           *)
(***************************************************************************)
\* update_user_language without a primary store (lines 107-130, 146)
UpdateLanguageNoAwait(p) ==
  /\ pc[p] = "tr_lang_read"
  /\ ~redis_client
  /\ LET l == loc[p]
         existing == ExistingData(l.user_id, TRUE)
         lang_data == NewLangData(existing, l.detected_language, l.confidence)
     IN /\ lang_memory' = [lang_memory EXCEPT ![l.user_id] = lang_data]
        /\ IF l.entry = "update_user_language"
           THEN Goto(p, [l EXCEPT !.existing = existing,
                                  !.lang_data = lang_data], "done")
           ELSE Goto(p, [l EXCEPT !.detected_language = NoLang,
                                  !.confidence = 0], "tr_monitor")
  /\ UNCHANGED <<cacheVars, lang_redis, metricVars, callVars>>

\* the steps of update_user_language between which other tasks may run
UpdateLanguageStep(p) ==
  \/ redis_client /\ UpdateLanguageRead(p)
  \/ redis_client /\ UpdateLanguageWrite(p)
  \/ UpdateLanguageNoAwait(p)

\* two tasks call process_audio; every step of process_audio ends at an
\* await on the bot or on the primary store
NextAudioPair ==
  \E p \in Procs :
    \/ StartProcessAudioOf(p, 1..MaxFiles, MaxPairCalls)
    \/ ProcessAudioStep(p)

SpecAudioPair == Init /\ [][NextAudioPair]_vars

\* two tasks call update_user_language
NextLangPair ==
  \E p \in Procs :
    \/ StartUpdateUserLanguage(p, MaxPairCalls)
    \/ UpdateLanguageStep(p)

SpecLangPair == Init /\ [][NextLangPair]_vars

(***************************************************************************)
(* SpeechPipeline.process_voice_message (speech_pipeline.py:52-141) and    *)
(* handle_voice_message (main.py:785-939).                                 *)
(***************************************************************************)
\* _record_error
RecordError_adds_time(m) ==
  [m EXCEPT !.total_processed = @ + 1, !.error_count = @ + 1,
            !.total_time = @ + 1]

\* an error recorded by the inner handler and again by the outer one
RecordError_in_both_handlers(m) ==
  [m EXCEPT !.total_processed = @ + 2, !.error_count = @ + 2]

RecordError(m) ==
  [m EXCEPT !.total_processed = @ + 1, !.error_count = @ + 1]

\* _record_success
RecordSuccess(m, total_time, audio_time, speech_time) ==
  [m EXCEPT !.total_processed = @ + 1, !.success_count = @ + 1,
            !.total_time = @ + total_time,
            !.audio_processing_time = @ + audio_time,
            !.speech_recognition_time = @ + speech_time]

\* get_performance_metrics (lines 204-229): the dictionary it returns, as a
\* function of its keys; times are in seconds
GetPerformanceMetrics(m) ==
  IF m.total_processed = 0
  THEN [total_processed |-> 0,
        success_rate |-> Ratio(0, 1),
        average_total_time |-> Ratio(0, 1),
        average_audio_time |-> Ratio(0, 1),
        average_speech_time |-> Ratio(0, 1)]
  ELSE LET n == IF m.success_count > 1 THEN m.success_count ELSE 1 IN
       [total_processed |-> m.total_processed,
        success_count |-> m.success_count,
        error_count |-> m.error_count,
        success_rate |-> Ratio(m.success_count, m.total_processed),
        average_total_time |-> Ratio(m.total_time, n),
        average_audio_time |-> Ratio(m.audio_processing_time, n),
        average_speech_time |-> Ratio(m.speech_recognition_time, n),
        performance_target_met |-> AtMost(Ratio(m.total_time, n), 2)]

\* the flag process_voice_message gives the SpeechPipelineError it raises
\* for a recognition error (lines 117-122)
UserNotifiedOf(err) == err.user_message_sent

\* where the caller of process_voice_message continues
AfterProcessVoiceMessage(l) ==
  IF l.entry = "handle_voice_message" THEN "hv_returned" ELSE "done"

\* a pipeline that lets the error of the failed phase through as it is
PipelineRaise_unwrapped(p, l, user_notified) ==
  Goto(p, [l EXCEPT !.pipe_outcome =
                       IF l.tr_outcome = "error" THEN l.tr_error.type
                       ELSE l.audio_outcome,
                    !.user_notified = user_notified],
       AfterProcessVoiceMessage(l))

\* lines 87-89, 117-122: the error leaves as SpeechPipelineError
PipelineRaise(p, l, user_notified) ==
  Goto(p, [l EXCEPT !.pipe_outcome = "SpeechPipelineError",
                    !.user_notified = user_notified],
       AfterProcessVoiceMessage(l))

\* a voice message arrives: handle_voice_message passes bot and chat id
CallHandleVoiceMessage(p) ==
  /\ \E file_id \in 1..MaxFiles, user_id \in Users :
       Begin(p, [Fresh EXCEPT !.entry = "handle_voice_message",
                              !.file_id = file_id, !.user_id = user_id,
                              !.hasBot = TRUE, !.hasChat = TRUE,
                              !.had_pref = lang_redis[user_id].present
                                           \/ lang_memory[user_id].present],
             "pa_analyze", MaxMessages)
  /\ UNCHANGED <<cacheVars, langVars, metricVars>>

\* a pipeline that records the acquisition error and goes on to recognition
AudioReturned_continues(p) ==
  /\ pc[p] = "pv_audio_returned"
  /\ LET l == loc[p] IN
     IF l.audio_outcome = "AudioProcessingError"
     THEN /\ pipeline_metrics' = RecordError(pipeline_metrics)
          /\ Goto(p, l, "tr_hint")
     ELSE /\ Goto(p, l, "tr_hint")
          /\ UNCHANGED pipeline_metrics
  /\ UNCHANGED <<cacheVars, langVars, monitor, callVars>>

\* lines 81-89: process_audio has returned or raised
AudioReturned(p) ==
  /\ pc[p] = "pv_audio_returned"
  /\ LET l == loc[p] IN
     IF l.audio_outcome = "AudioProcessingError"
     THEN /\ pipeline_metrics' = RecordError(pipeline_metrics)
          /\ PipelineRaise(p, l, FALSE)
     ELSE /\ Goto(p, l, "tr_hint")
          /\ UNCHANGED pipeline_metrics
  /\ UNCHANGED <<cacheVars, langVars, monitor, callVars>>

\* lines 99-132: transcribe has returned or raised
SpeechReturned(p) ==
  /\ pc[p] = "pv_speech_returned"
  /\ LET l == loc[p] IN
     IF l.tr_outcome = "error"
     THEN /\ pipeline_metrics' = RecordError(pipeline_metrics)
          /\ PipelineRaise(p, l, UserNotifiedOf(l.tr_error))
     ELSE /\ pipeline_metrics' =
               RecordSuccess(pipeline_metrics, l.audio_time + l.speech_time,
                             l.audio_time, l.speech_time)
          /\ Goto(p, [l EXCEPT !.pipe_outcome = "text"],
                  AfterProcessVoiceMessage(l))
  /\ UNCHANGED <<cacheVars, langVars, monitor, callVars>>

\* main.py:923-935: the handler reports the error unless user_notified is set
HandlerReturned(p) ==
  /\ pc[p] = "hv_returned"
  /\ LET l == loc[p] IN
     IF l.pipe_outcome = "SpeechPipelineError"
     THEN IF l.user_notified
          THEN Goto(p, [l EXCEPT !.deleted = TRUE], "done")
          ELSE Goto(p, [l EXCEPT !.handler_notices = @ + 1], "done")
     ELSE Goto(p, l, "done")
  /\ UNCHANGED <<cacheVars, langVars, metricVars, callVars>>

PipelineStep(p) ==
  \/ AudioReturned(p)
  \/ SpeechReturned(p)
  \/ HandlerReturned(p)

Next ==
  \/ CallHandleVoiceMessage(1)
  \/ ProcessAudioStep(1)
  \/ TranscribeStep(1)
  \/ TranscribeAudioStep(1)
  \/ PipelineStep(1)

Spec == Init /\ [][Next]_vars

\* every await of a message in progress completes: the calls on the bot,
\* the stores and the API return or raise, and asyncio.sleep returns
MessageStep ==
  \/ ProcessAudioStep(1)
  \/ TranscribeStep(1)
  \/ TranscribeAudioStep(1)
  \/ PipelineStep(1)

SpecFair == Spec /\ WF_vars(MessageStep)

(***************************************************************************)
(* Two pipeline invocations on one event loop, one per task.               *)
(***************************************************************************)
\* attachments of the two messages: a native and a foreign one
PairFiles == {1, 2}

\* whether task q keeps the thread while it waits.  Every delay of
\* transcribe_audio is `await asyncio.sleep(...)` (lines 206, 228, 235),
\* which hands the thread back to the loop.  The API call of line 184 is
\* synchronous: it begins and ends within one step of its task.
HoldsThread_time_sleep(q) == pc[q] = "asr_sleep"
HoldsThread(q) == FALSE

\* a task calls process_voice_message with bot and chat id
StartProcessVoiceMessage(p) ==
  /\ pc[p] = "idle"
  /\ \A q \in Procs \ {p} : ~HoldsThread(q)
  /\ \E file_id \in PairFiles, user_id \in Users :
       Begin(p, [Fresh EXCEPT !.entry = "process_voice_message",
                              !.file_id = file_id, !.user_id = user_id,
                              !.hasBot = TRUE, !.hasChat = TRUE,
                              !.had_pref = lang_redis[user_id].present
                                           \/ lang_memory[user_id].present,
                              !.began_in_sleep =
                                 \E q \in Procs \ {p} : pc[q] = "asr_sleep"],
             "pa_analyze", Cardinality(Procs))
  /\ UNCHANGED <<cacheVars, langVars, metricVars>>

\* the loop resumes task p: one await of p completes and p runs to its next
\* await
TaskStep(p) ==
  /\ \A q \in Procs \ {p} : ~HoldsThread(q)
  /\ \/ ProcessAudioStep(p)
     \/ GetLanguageHint(p)
     \/ StagePayload(p)
     \/ TranscribeAudioStep(p)
     \/ ApiReturned(p)
     \/ UpdateLanguageStep(p)
     \/ RecordTranscription(p)
     \/ AudioReturned(p)
     \/ SpeechReturned(p)

NextPair ==
  \E p \in Procs :
    \/ StartProcessVoiceMessage(p)
    \/ TaskStep(p)

SpecPair == Init /\ [][NextPair]_vars

\* the awaits of task 2 complete; nothing is assumed about task 1, which
\* may stay in a delay for as long as it likes
SpecPairFair == SpecPair /\ WF_vars(TaskStep(2))

(***************************************************************************)
(* Claims about transcribe_audio.                                          *)
(***************************************************************************)
AsrPositions == {"asr_call", "asr_sleep", "asr_notify"}
Retryable == {"RateLimitError", "APITimeoutError", "APIError"}
AllOf(seq, S) == \A i \in 1..Len(seq) : seq[i] \in S
RECURSIVE SumSeq(_)
SumSeq(seq) == IF seq = <<>> THEN 0 ELSE Head(seq) + SumSeq(Tail(seq))
IsRecognitionError(e) ==
  e.type \in {"OpenAISpeechRecognitionError", "UserMessageAlreadySentError"}
ThreeRateLimits == <<"RateLimitError", "RateLimitError", "RateLimitError">>

\* C1: one invocation of transcribe_audio makes at most 3 API calls; a
\* successful call is the last call of the invocation and its result is
\* returned; after 3 calls that failed with a retryable error the invocation
\* raises OpenAISpeechRecognitionError and makes no fourth call.
C1_AtMostThreeCalls ==
  \A p \in Procs :
    LET l == loc[p] IN
    /\ l.api_calls <= 3
    /\ Len(l.responses) = l.api_calls
    /\ \A i \in 1..Len(l.responses) :
         l.responses[i] = "ok" =>
           /\ i = Len(l.responses)
           /\ l.asr_outcome = "ok"
           /\ pc[p] \notin AsrPositions
    /\ (l.api_calls = 3 /\ AllOf(l.responses, Retryable)) =>
         \/ pc[p] = "asr_notify"
         \/ /\ pc[p] \notin AsrPositions
            /\ l.asr_outcome = "error"
            /\ IsRecognitionError(l.asr_error)

C1_Witness ==
  /\ loc[1].entry = "transcribe_audio"
  /\ pc[1] = "done"
  /\ loc[1].api_calls = 3
  /\ AllOf(loc[1].responses, Retryable)
  /\ loc[1].asr_outcome = "error"

\* C2: when all 3 attempts are rate limited, the delays are 0 s, 2 s and 4 s,
\* 6 s in total, before the error is raised.
C2_RateLimitDelays ==
  \A p \in Procs :
    (loc[p].responses = ThreeRateLimits /\ loc[p].asr_outcome = "error") =>
      /\ loc[p].delays = <<0, 2, 4>>
      /\ SumSeq(loc[p].delays) = 6

\* C3: all 3 attempts rate limited, bot and chat_id supplied and send_message
\* succeeded: the raised error has user_message_sent = TRUE.
C3_NotifiedErrorIsFlagged ==
  \A p \in Procs :
    ( /\ loc[p].responses = ThreeRateLimits
      /\ loc[p].hasBot /\ loc[p].hasChat
      /\ loc[p].direct_notices = 1
      /\ loc[p].asr_outcome = "error" ) =>
      /\ loc[p].asr_error.user_message_sent
      /\ loc[p].asr_error.type = "UserMessageAlreadySentError"

\* C4: an error raised by transcribe_audio has user_message_sent = TRUE only
\* if bot and chat_id were supplied and send_message succeeded.
C4_FlagOnlyAfterNotice ==
  \A p \in Procs :
    (loc[p].asr_outcome = "error" /\ loc[p].asr_error.user_message_sent) =>
      (loc[p].hasBot /\ loc[p].hasChat /\ loc[p].direct_notices >= 1)

\* a raised error after a failed send_message, and its flag is FALSE
C4_Witness ==
  /\ loc[1].asr_outcome = "error"
  /\ loc[1].responses = ThreeRateLimits
  /\ loc[1].hasBot /\ loc[1].hasChat
  /\ loc[1].direct_notices = 0
  /\ ~loc[1].asr_error.user_message_sent

(***************************************************************************)
(* Claims about process_audio and CacheManager.                            *)
(***************************************************************************)
NativeSuffixes == {".ogg", ".OGA"}
ForeignSuffixes == {".mp3", ".mp4", ".wav", ".m4a"}
HasSuffixIn(file_id, S) ==
  /\ file_id \in FileIds
  /\ FileTable[file_id].hasPath
  /\ FileTable[file_id].suffix \in S
\* task p runs process_audio and its cache lookup has missed
Missed(p) == pc[p] = "pa_fetch" \/ loc[p].fetch # "none"
Fetches(r) == r.n_direct + r.n_convert

\* C7 as stated: an attachment whose path has a native extension is, on a
\* cache miss, fetched by download_direct and never by stream_convert.
C7_NativeTakesFastPath ==
  \A p \in Procs :
    (HasSuffixIn(loc[p].file_id, NativeSuffixes) /\ Missed(p)) =>
      /\ loc[p].n_convert = 0
      /\ loc[p].fetch # "none" => loc[p].n_direct = 1

\* C7 amended: the same when the metadata lookup succeeded, that is get_file
\* answered and reported a non-zero file_size.
C7_NativeTakesFastPathWhenAnalyzed ==
  \A p \in Procs :
    (HasSuffixIn(loc[p].file_id, NativeSuffixes) /\ loc[p].meta_ok /\ Missed(p)) =>
      /\ loc[p].n_convert = 0
      /\ loc[p].fetch # "none" => loc[p].n_direct = 1

C7_Witness ==
  /\ loc[1].file_id = 3
  /\ loc[1].meta_ok
  /\ pc[1] = "done"
  /\ loc[1].audio_outcome = "ok"
  /\ loc[1].n_direct = 1 /\ loc[1].n_convert = 0

\* the previous call was a successful process_audio of a foreign-format
\* attachment and task p has just completed CacheManager.get for the same id
GetAfterForeignProcessAudio(p) ==
  /\ prev.entry = "process_audio"
  /\ prev.outcome = "ok"
  /\ HasSuffixIn(prev.file_id, ForeignSuffixes)
  /\ loc[p].entry = "cache_get"
  /\ loc[p].file_id = prev.file_id
  /\ pc[p] = "done"

\* C8 as stated: a successful process_audio of a foreign-format attachment
\* took the slow path, and a get that follows returns the fetched bytes, a
\* non-empty hit, whatever the cache tiers do.
C8_ForeignSlowPathThenHit ==
  \A p \in Procs :
    GetAfterForeignProcessAudio(p) =>
      /\ prev.n_convert = 1 /\ prev.n_direct = 0
      /\ Truthy(loc[p].audio)
      /\ loc[p].audio.data = FileTable[prev.file_id].data

\* C8 amended: on a cache miss the slow path is taken; and when the fetched
\* bytes are non-empty and the write landed in a tier, a following get that
\* reads that tier (the primary store answers when the write landed there)
\* returns exactly the fetched bytes.
C8_ForeignSlowPathThenHitWhenStored ==
  \A p \in Procs :
    /\ (HasSuffixIn(loc[p].file_id, ForeignSuffixes) /\ Missed(p)) =>
         /\ loc[p].n_direct = 0
         /\ loc[p].fetch # "none" => loc[p].n_convert = 1
    /\ ( /\ GetAfterForeignProcessAudio(p)
         /\ ~prev.cache_hit
         /\ Truthy(prev.audio)
         /\ prev.wrote \in {"redis", "memory"}
         /\ prev.wrote = "redis" => loc[p].redis_get = "ok" ) =>
         /\ prev.n_convert = 1 /\ prev.n_direct = 0
         /\ Truthy(loc[p].audio)
         /\ loc[p].audio = prev.audio
         /\ loc[p].audio.data = FileTable[prev.file_id].data

C8_Witness ==
  /\ GetAfterForeignProcessAudio(1)
  /\ prev.n_convert = 1
  /\ prev.wrote = "redis"
  /\ loc[1].redis_get = "ok"
  /\ Truthy(loc[1].audio)

\* the previous call was a process_audio that succeeded and wrote the cache,
\* and task p runs process_audio for the same id and is past its cache lookup
SecondProcessAudio(p) ==
  /\ prev.entry = "process_audio"
  /\ prev.outcome = "ok"
  /\ prev.wrote \in {"redis", "memory"}
  /\ loc[p].entry = "process_audio"
  /\ loc[p].file_id = prev.file_id
  /\ pc[p] \notin {"pa_analyze", "pa_cache_get"}

\* C9 as stated: the two calls invoke the fetcher exactly once in total and
\* the second returns the cached bytes.
C9_SecondCallNeverFetches ==
  \A p \in Procs :
    SecondProcessAudio(p) =>
      /\ Fetches(prev) = 1
      /\ Fetches(loc[p]) = 0
      /\ loc[p].cache_hit
      /\ loc[p].audio = prev.audio

\* C9 amended: the same when the first call fetched non-empty bytes and the
\* second call's lookup reads the tier they were written to (the primary
\* store answers when they were written there).
C9_SecondCallNeverFetchesWhenReadable ==
  \A p \in Procs :
    ( /\ SecondProcessAudio(p)
      /\ Truthy(prev.audio)
      /\ prev.wrote = "redis" => loc[p].redis_get = "ok" ) =>
      /\ Fetches(prev) = 1
      /\ Fetches(loc[p]) = 0
      /\ loc[p].cache_hit
      /\ loc[p].audio = prev.audio

C9_Witness ==
  /\ SecondProcessAudio(1)
  /\ prev.wrote = "memory"
  /\ pc[1] = "done"
  /\ loc[1].cache_hit
  /\ Fetches(loc[1]) = 0

\* C10: whatever the primary store does, get and set do not raise, and
\* process_audio raises AudioProcessingError only when the download failed:
\* once the bytes are fetched the call returns them.
C10_CacheFailureNeverFailsProcessAudio ==
  \A p \in Procs :
    /\ ~loc[p].cache_raised
    /\ loc[p].audio_outcome \in {"none", "ok", "AudioProcessingError"}
    /\ loc[p].audio_outcome = "AudioProcessingError" => loc[p].fetch = "failed"
    /\ (loc[p].fetch = "ok" /\ loc[p].audio_outcome # "none") =>
         /\ loc[p].audio_outcome = "ok"
         /\ loc[p].audio = SomeBytes(FileTable[loc[p].file_id].data)

C10_Witness ==
  /\ loc[1].entry = "process_audio"
  /\ pc[1] = "done"
  /\ loc[1].redis_get = "failed"
  /\ loc[1].redis_set = "failed"
  /\ loc[1].fetch = "ok"
  /\ loc[1].audio_outcome = "ok"

(***************************************************************************)
(* Claims about the notification flag along the pipeline.                  *)
(***************************************************************************)
\* C5: the SpeechPipelineError raised by process_voice_message has
\* user_notified = TRUE exactly when the transcription client has sent the
\* direct notice to the user during the call.
C5_NoticeFlagForwarded ==
  \A p \in Procs :
    loc[p].pipe_outcome = "SpeechPipelineError" =>
      (loc[p].user_notified <=> loc[p].direct_notices >= 1)

\* C6: for one voice message the user gets at most one error notice, the
\* direct notice of the transcription client or the handler's error text.
C6_AtMostOneErrorNotice ==
  \A p \in Procs :
    loc[p].direct_notices + loc[p].handler_notices <= 1

(***************************************************************************)
(* Claims about the in-process map of CacheManager.                        *)
(***************************************************************************)
\* C11: the in-process map never holds more than 10 entries, and once it
\* holds 10 its key set never changes: no key is admitted, none is evicted.
C11_MemoryCacheCapped ==
  /\ [](MemoryCacheSize <= MemoryCacheLimit)
  /\ [][MemoryCacheSize = MemoryCacheLimit => MemoryKeys' = MemoryKeys]_vars

\* a set for an absent key has met the full map and has been dropped
C11_Witness ==
  /\ loc[1].entry = "cache_set"
  /\ pc[1] = "done"
  /\ loc[1].wrote = "dropped"
  /\ MemoryCacheSize = MemoryCacheLimit
  /\ loc[1].file_id \notin MemoryKeys

(***************************************************************************)
(* Further claims about process_audio.                                     *)
(***************************************************************************)
\* the bytes a fetch of the attachment delivers
FreshFetch(file_id) == SomeBytes(FileTable[file_id].data)

\* C12: every value either cache tier holds for an attachment id is the
\* bytes a fresh fetch of that id returns, and so is every cache hit that
\* process_audio returns.
C12_CacheHitIsFreshFetch ==
  /\ \A f \in FileIds :
       /\ audio_redis[f].present => audio_redis[f] = FreshFetch(f)
       /\ memory_cache[f].present => memory_cache[f] = FreshFetch(f)
  /\ \A p \in Procs :
       (loc[p].entry = "process_audio" /\ loc[p].cache_hit) =>
         loc[p].audio = FreshFetch(loc[p].file_id)

C12_Witness ==
  /\ loc[1].entry = "process_audio"
  /\ pc[1] = "done"
  /\ loc[1].cache_hit
  /\ loc[1].redis_get = "ok"
  /\ Len(loc[1].audio.data) = 3
  /\ loc[1].audio = audio_redis[loc[1].file_id]

\* C13: a failed download, on either path, makes process_audio raise
\* AudioProcessingError; a call downloads at most once; and the step on
\* which the download fails, like the rest of the call, writes no cache tier.
C13_FetchFailureRaisesOnce ==
  /\ [](\A p \in Procs :
         loc[p].entry = "process_audio" =>
           /\ Fetches(loc[p]) <= 1
           /\ loc[p].fetch = "failed" =>
                /\ pc[p] = "done"
                /\ loc[p].audio_outcome = "AudioProcessingError"
                /\ loc[p].wrote = "none"
                /\ loc[p].redis_set = "none")
  /\ [][\A p \in Procs :
          (loc'[p].entry = "process_audio" /\ loc'[p].fetch = "failed") =>
            UNCHANGED <<audio_redis, memory_cache>>]_vars

C13_Witness ==
  /\ loc[1].entry = "process_audio"
  /\ loc[1].fetch = "failed"
  /\ loc[1].n_convert = 1
  /\ loc[1].audio_outcome = "AudioProcessingError"
  /\ prev.entry = "process_audio"
  /\ prev.wrote = "memory"

\* the metadata lookup of task p has been made and has failed
LookupFailed(p) ==
  /\ loc[p].entry = "process_audio"
  /\ pc[p] # "pa_analyze"
  /\ ~loc[p].meta_ok

\* C14: analyze_file_metadata never raises; when the lookup fails it returns
\* size 0, format unknown, no codec and is_optimal = FALSE, and process_audio
\* goes on: after a cache miss it fetches on the slow path, and it fails only
\* if that download fails.
C14_MetadataFailsSoft ==
  /\ [](\A p \in Procs :
         LookupFailed(p) =>
           /\ loc[p].meta = [format |-> "unknown", codec |-> "None",
                             is_optimal |-> FALSE, size |-> 0]
           /\ loc[p].n_direct = 0
           /\ loc[p].fetch # "none" => loc[p].n_convert = 1
           /\ loc[p].audio_outcome = "AudioProcessingError" =>
                loc[p].fetch = "failed")
  /\ [][\A p \in Procs :
          pc[p] = "pa_analyze" =>
            /\ pc'[p] = "pa_cache_get"
            /\ loc'[p].audio_outcome = "none"]_vars

C14_Witness ==
  /\ LookupFailed(1)
  /\ FileTable[loc[1].file_id].suffix = ".ogg"
  /\ pc[1] = "done"
  /\ loc[1].n_convert = 1
  /\ loc[1].audio_outcome = "ok"
  /\ Truthy(loc[1].audio)

(***************************************************************************)
(* Claims about UserLanguageCache.                                         *)
(***************************************************************************)
\* the records a completed get_user_language call of task p has read: the
\* primary store's when it answered, and the in-process one
RecordsRead(p) ==
  (IF loc[p].redis_get = "ok" THEN {lang_redis[loc[p].user_id]} ELSE {})
    \cup {lang_memory[loc[p].user_id]}

GetDone(p) == loc[p].entry = "get_user_language" /\ pc[p] = "done"

\* C15: get_user_language returns a language only from a record it read
\* whose confidence is strictly greater than 0.7, and returns absent when no
\* record it read is above 0.7; a record at exactly 0.7 yields absent.
C15_HintOnlyAboveThreshold ==
  \A p \in Procs :
    GetDone(p) =>
      /\ loc[p].lang_result # NoLang =>
           \E r \in RecordsRead(p) :
             /\ r.present
             /\ r.language = loc[p].lang_result
             /\ r.confidence > ConfidenceThreshold
      /\ (\A r \in RecordsRead(p) :
            ~r.present \/ r.confidence <= ConfidenceThreshold) =>
           loc[p].lang_result = NoLang

C15_Witness ==
  /\ GetDone(1)
  /\ loc[1].redis_get = "ok"
  /\ lang_redis[loc[1].user_id].present
  /\ lang_redis[loc[1].user_id].confidence = ConfidenceThreshold
  /\ lang_memory[loc[1].user_id] = lang_redis[loc[1].user_id]
  /\ loc[1].lang_result = NoLang

\* task p has completed a direct update_user_language call that found a
\* stored record of the same, or of another, language
UpdateDone(p) == loc[p].entry = "update_user_language" /\ pc[p] = "done"
SameLanguageUpdate(p) ==
  /\ UpdateDone(p)
  /\ loc[p].existing.present
  /\ loc[p].existing.language = loc[p].detected_language
OtherLanguageUpdate(p) ==
  /\ UpdateDone(p)
  /\ loc[p].existing.present
  /\ loc[p].existing.language # loc[p].detected_language

\* C16: a same-language update of a record of confidence c with observation
\* confidence o stores confidence 0.9*c + 0.1*o exactly, which is at least
\* 0.9*c.
C16_ReinforcementLaw ==
  \A p \in Procs :
    SameLanguageUpdate(p) =>
      /\ 10 * loc[p].lang_data.confidence =
           9 * loc[p].existing.confidence + loc[p].confidence
      /\ 10 * loc[p].lang_data.confidence >= 9 * loc[p].existing.confidence
      /\ loc[p].lang_data.language = loc[p].detected_language
      /\ lang_memory[loc[p].user_id] = loc[p].lang_data

C16_Witness ==
  /\ SameLanguageUpdate(1)
  /\ loc[1].existing.confidence = (ONE \div 10) * 8
  /\ loc[1].confidence = ONE \div 2
  /\ loc[1].lang_data.confidence = (ONE \div 100) * 77

\* C17: a same-language update never lowers the stored confidence.
C17_AgreementNeverLowers ==
  \A p \in Procs :
    SameLanguageUpdate(p) =>
      loc[p].lang_data.confidence >= loc[p].existing.confidence

\* C18 as stated: an update with another language stores 0.5*o, and that is
\* strictly less than the 0.9*c + 0.1*o a same-language update would store,
\* for every c and o.
C18_DisagreementLaw ==
  \A p \in Procs :
    OtherLanguageUpdate(p) =>
      /\ 10 * loc[p].lang_data.confidence = 5 * loc[p].confidence
      /\ 10 * loc[p].lang_data.confidence <
           9 * loc[p].existing.confidence + loc[p].confidence

\* C18 amended: an update with another language stores 0.5*o under the new
\* language; that is strictly less than 0.9*c + 0.1*o whenever o < 2.25*c.
C18_DisagreementLawWhenPlausible ==
  \A p \in Procs :
    OtherLanguageUpdate(p) =>
      /\ 10 * loc[p].lang_data.confidence = 5 * loc[p].confidence
      /\ loc[p].lang_data.language = loc[p].detected_language
      /\ lang_memory[loc[p].user_id] = loc[p].lang_data
      /\ 4 * loc[p].confidence < 9 * loc[p].existing.confidence =>
           10 * loc[p].lang_data.confidence <
             9 * loc[p].existing.confidence + loc[p].confidence

C18_Witness ==
  /\ OtherLanguageUpdate(1)
  /\ loc[1].existing.confidence = (ONE \div 10) * 8
  /\ loc[1].confidence = ONE
  /\ loc[1].lang_data.confidence = ONE \div 2

\* C19: when the hint of a user was language A and three consecutive
\* updates have observed another language B, get_user_language returns B.
C19_ThreeDisagreementsFlip ==
  \A p \in Procs : \A u \in Users :
    (pc[p] = "done" /\ loc[p].streak[u].n = 3) =>
      \A ok \in RedisOutcomes : GetUserLanguage(u, ok) = loc[p].streak[u].to

(***************************************************************************)
(* Claims about a successful process_voice_message.                        *)
(***************************************************************************)
\* the message of task p was transcribed, and its user had no stored
\* preference when it arrived
SucceededForNewUser(p) ==
  /\ loc[p].entry = "handle_voice_message"
  /\ loc[p].pipe_outcome = "text"
  /\ ~loc[p].had_pref

\* 0.8 * min(1, n / 100) for a text of n characters
NewUserConfidence(n) == (8 * Min(ONE, n * (ONE \div 100))) \div 10

\* the text the API returned, as the caller receives it
ReturnsTranscribedText(p) ==
  loc[p].text = [len |-> loc[p].api_result.text.len, ws |-> 0]

\* the success step counts the message once, as a success
CountsOneSuccess ==
  \A p \in Procs :
    (pc[p] = "pv_speech_returned" /\ loc[p].tr_outcome = "ok") =>
      /\ pipeline_metrics'.total_processed = pipeline_metrics.total_processed + 1
      /\ pipeline_metrics'.success_count = pipeline_metrics.success_count + 1
      /\ pipeline_metrics'.error_count = pipeline_metrics.error_count

\* C20 as stated: a successful process_voice_message for a user without a
\* stored preference returns the transcribed text, creates a preference with
\* confidence 0.8 * min(1, len(text)/100), and adds 1 to total_processed and
\* to success_count and nothing to error_count.
C20_SuccessCreatesPreference ==
  /\ [](\A p \in Procs :
         SucceededForNewUser(p) =>
           /\ ReturnsTranscribedText(p)
           /\ lang_memory[loc[p].user_id].present
           /\ lang_memory[loc[p].user_id].confidence =
                NewUserConfidence(loc[p].api_result.text.len
                                  + loc[p].api_result.text.ws))
  /\ [][CountsOneSuccess]_vars

\* C20 amended: the preference is created when the result carries a
\* language, with the language of the result and the confidence taken from
\* the text as the API returned it, blanks included; when the result carries
\* no language (it is 'unknown') no preference is created.
C20_SuccessCreatesPreferenceWhenLanguageKnown ==
  /\ [](\A p \in Procs :
         SucceededForNewUser(p) =>
           /\ ReturnsTranscribedText(p)
           /\ IF loc[p].api_result.language # "unknown"
              THEN lang_memory[loc[p].user_id] =
                     LangData(loc[p].api_result.language,
                              NewUserConfidence(loc[p].api_result.text.len
                                                + loc[p].api_result.text.ws))
              ELSE /\ ~lang_memory[loc[p].user_id].present
                   /\ ~lang_redis[loc[p].user_id].present)
  /\ [][CountsOneSuccess]_vars

C20_Witness ==
  /\ SucceededForNewUser(1)
  /\ pc[1] = "done"
  /\ loc[1].api_result.text.ws = 1
  /\ lang_memory[loc[1].user_id].present
  /\ lang_memory[loc[1].user_id].confidence = (ONE \div 1000) * 408
  /\ pipeline_metrics.total_processed = 1
  /\ pipeline_metrics.success_count = 1
  /\ pipeline_metrics.error_count = 0

(***************************************************************************)
(* Further claims about UserLanguageCache.                                 *)
(***************************************************************************)
\* C21: every language preference stored, in the primary store or in the
\* in-process map, has a confidence between 0 and 1.
C21_ConfidenceInUnitInterval ==
  \A u \in Users :
    /\ lang_redis[u].present =>
         (0 <= lang_redis[u].confidence /\ lang_redis[u].confidence <= ONE)
    /\ lang_memory[u].present =>
         (0 <= lang_memory[u].confidence /\ lang_memory[u].confidence <= ONE)

\* both tiers hold a record, the primary store an older one, after a
\* reinforcement of the highest confidence a new user can get
C21_Witness ==
  /\ UpdateDone(1)
  /\ lang_redis[loc[1].user_id].present
  /\ lang_redis[loc[1].user_id].confidence = (ONE \div 10) * 8
  /\ lang_memory[loc[1].user_id].confidence = (ONE \div 100) * 82
  /\ loc[1].confidence = ONE

\* C22: whatever the primary store does (absent, failing on any read or
\* write), get_user_language and update_user_language return normally, and
\* when update_user_language has returned the in-process map holds the
\* record it computed for that user.
C22_UpdateSurvivesStoreFailure ==
  /\ [](\A p \in Procs :
         /\ UpdateDone(p) =>
              /\ loc[p].lang_data.present
              /\ loc[p].lang_data =
                   NewLangData(loc[p].existing, loc[p].detected_language,
                               loc[p].confidence)
              /\ lang_memory[loc[p].user_id] = loc[p].lang_data
              /\ loc[p].tr_outcome = "none"
         /\ GetDone(p) =>
              /\ loc[p].lang_result \in DetectedLangs \cup {NoLang}
              /\ loc[p].tr_outcome = "none")
  /\ [][\A p \in Procs :
         /\ (pc[p] = "tr_lang_read" /\ pc'[p] # pc[p])
              => pc'[p] = "tr_lang_write"
         /\ (pc[p] = "tr_lang_write" /\ pc'[p] # pc[p]
              /\ loc[p].entry = "update_user_language")
              => (pc'[p] = "done"
                  /\ lang_memory'[loc[p].user_id] = loc[p].lang_data)]_vars

\* an update returned while the write to the primary store had failed: the
\* primary store still holds another record than the in-process map
C22_Witness ==
  /\ redis_client
  /\ UpdateDone(1)
  /\ lang_memory[loc[1].user_id] = loc[1].lang_data
  /\ lang_redis[loc[1].user_id] # lang_memory[loc[1].user_id]

(***************************************************************************)
(* Further claims about the recognition call.                              *)
(***************************************************************************)
\* C23: a call to the recognition API carries a language parameter exactly
\* when the caller's language hint is present and is one of the priority
\* languages ru and en, and the parameter is then that hint; in every other
\* case no language parameter is sent.
C23_LanguageSentIffAllowed ==
  [][\A p \in Procs :
       loc'[p].api_calls > loc[p].api_calls =>
         /\ (loc'[p].sent.language # NoLang) <=>
              (loc[p].language # NoLang /\ loc[p].language \in {"ru", "en"})
         /\ loc'[p].sent.language \in {NoLang, loc[p].language}
         /\ loc'[p].sent.temperature = loc[p].temperature]_vars

\* a call was made for a caller whose hint is outside the allow-list, and
\* went out without a language parameter
C23_Witness ==
  /\ loc[1].entry = "transcribe_audio"
  /\ loc[1].language = "de"
  /\ loc[1].api_calls > 0
  /\ loc[1].sent = [language |-> NoLang, temperature |-> loc[1].temperature]

TimeoutsAndErrors == {"APITimeoutError", "APIError"}

\* C30: when every attempt of transcribe_audio fails with a timeout or a
\* generic API error, it sleeps 1 second after the first and after the
\* second attempt, 2 seconds in total, and after the third attempt it raises
\* OpenAISpeechRecognitionError without sleeping again.
C30_FixedDelayOnTimeoutOrError ==
  /\ [](\A p \in Procs :
         LET l == loc[p] IN
         (l.entry = "transcribe_audio" /\ l.api_calls > 0
          /\ AllOf(l.responses, TimeoutsAndErrors)) =>
           /\ \A i \in 1..Len(l.delays) : l.delays[i] = 1
           /\ pc[p] = "asr_sleep" => Len(l.delays) = l.api_calls
           /\ pc[p] = "asr_call" => Len(l.delays) = l.api_calls
           /\ pc[p] = "done" =>
                /\ l.api_calls = 3
                /\ l.delays = <<1, 1>>
                /\ SumSeq(l.delays) = 2
                /\ l.asr_outcome = "error"
                /\ l.asr_error = OpenAISpeechRecognitionError)
  /\ [][\A p \in Procs :
         (pc[p] = "asr_call" /\ loc[p].entry = "transcribe_audio"
          /\ loc'[p].api_calls = 3 /\ loc[p].api_calls = 2
          /\ AllOf(loc'[p].responses, TimeoutsAndErrors))
           => (pc'[p] = "done" /\ loc'[p].delays = loc[p].delays)]_vars

\* three attempts failed, with a timeout and with API errors, and the call
\* has raised
C30_Witness ==
  /\ loc[1].entry = "transcribe_audio"
  /\ pc[1] = "done"
  /\ loc[1].responses = <<"APITimeoutError", "APIError", "APITimeoutError">>
  /\ loc[1].delays = <<1, 1>>
  /\ loc[1].asr_outcome = "error"

(***************************************************************************)
(* Temporary files.                                                        *)
(***************************************************************************)
StreamConvertEnded(p) ==
  /\ loc[p].entry = "process_audio"
  /\ loc[p].n_convert = 1
  /\ pc[p] \in {"pa_cache_set", "done"}

\* C25: after stream_convert has ended, by returning or by raising because
\* the download or the read failed, the temporary file it created no longer
\* exists.
C25_TempInputDeleted ==
  \A p \in Procs : StreamConvertEnded(p) => ~loc[p].temp_input_exists

\* the parameters of the call transcribe is about to issue
NextParams(p) == BuildParams(loc[p].language, loc[p].temperature)

\* C24: whenever transcribe issues a recognition call with no language
\* parameter the call's temperature is 0.2, and whenever the call carries a
\* language parameter its temperature is 0.0, for every user preference and
\* every context language hint.
C24_TemperatureFollowsLanguageParameter ==
  \A p \in Procs :
    (loc[p].entry = "transcribe" /\ pc[p] = "asr_call") =>
      /\ NextParams(p).language = NoLang => NextParams(p).temperature = 2
      /\ NextParams(p).language # NoLang => NextParams(p).temperature = 0

TranscribeEnded(p) == loc[p].entry = "transcribe" /\ pc[p] = "done"

\* C26: after transcribe has ended, by returning a result or by raising at
\* any step, the temporary file that staged the payload no longer exists.
C26_TempFileDeleted ==
  \A p \in Procs : TranscribeEnded(p) => ~loc[p].temp_file_exists

(***************************************************************************)
(* Further claims about process_voice_message.                             *)
(***************************************************************************)
AcquirePositions == {"pa_analyze", "pa_cache_get", "pa_fetch", "pa_cache_set",
                     "pv_audio_returned"}
RecognizePositions == {"tr_hint", "tr_stage", "tr_api_returned"} \cup AsrPositions
LearnPositions == {"tr_lang_read", "tr_lang_write"}
InPipeline(p) == loc[p].entry = "handle_voice_message"

\* C27: within one process_voice_message call the steps come in the order
\* acquire, recognize, learn, record metrics, return: no recognition call
\* before acquisition has returned bytes, the language preference is
\* written only after a successful recognition and before the success
\* counters are incremented, and after a failed acquisition the call makes
\* no recognition call and no preference update.
C27_StepsInOrder ==
  /\ [](\A p \in Procs : InPipeline(p) =>
         /\ pc[p] \in AcquirePositions =>
              (loc[p].api_calls = 0 /\ loc[p].asr_outcome = "none"
               /\ loc[p].tr_outcome = "none" /\ loc[p].pipe_outcome = "none")
         /\ (pc[p] \in RecognizePositions \/ loc[p].api_calls > 0) =>
              (loc[p].audio_outcome = "ok" /\ loc[p].audio.present)
         /\ pc[p] \in LearnPositions \cup {"tr_monitor"} =>
              (loc[p].asr_outcome = "ok" /\ loc[p].api_calls > 0
               /\ loc[p].pipe_outcome = "none")
         /\ loc[p].audio_outcome = "AudioProcessingError" =>
              (loc[p].api_calls = 0 /\ pc[p] \in {"pv_audio_returned",
                                                    "hv_returned", "done"})
         /\ loc[p].pipe_outcome = "text" =>
              (loc[p].tr_outcome = "ok" /\ pc[p] \in {"hv_returned", "done"}))
  /\ [][\A p \in Procs : InPipeline(p) =>
         /\ <<lang_redis, lang_memory>>' # <<lang_redis, lang_memory>> =>
              /\ pc[p] = "tr_lang_write" /\ pc'[p] = "tr_monitor"
              /\ loc[p].audio_outcome = "ok" /\ loc[p].asr_outcome = "ok"
              /\ loc[p].pipe_outcome = "none"
              /\ pipeline_metrics' = pipeline_metrics
         /\ monitor' # monitor =>
              (pc[p] = "tr_monitor" /\ pipeline_metrics' = pipeline_metrics)
         /\ pipeline_metrics'.success_count # pipeline_metrics.success_count =>
              /\ pc[p] = "pv_speech_returned" /\ loc[p].tr_outcome = "ok"
              /\ loc'[p].pipe_outcome = "text"
              /\ lang_redis' = lang_redis /\ lang_memory' = lang_memory]_vars

\* a message went through all five steps: bytes acquired, a recognition
\* call made, a preference created, the success counted, the text returned
C27_Witness ==
  /\ InPipeline(1) /\ pc[1] = "done"
  /\ loc[1].audio_outcome = "ok" /\ loc[1].api_calls > 0
  /\ ~loc[1].had_pref /\ lang_memory[loc[1].user_id].present
  /\ pipeline_metrics.success_count = 1
  /\ monitor.total_requests = 1
  /\ loc[1].pipe_outcome = "text"

MetricKeys ==
  {"total_processed", "success_count", "error_count", "success_rate",
   "average_total_time", "average_audio_time", "average_speech_time",
   "performance_target_met"}

\* C29: in every reachable state, also before any request was processed and
\* when only failures were processed, get_performance_metrics returns all
\* eight keys, and performance_target_met is average_total_time <= 2.0.
C29_MetricsAlwaysComplete ==
  LET r == GetPerformanceMetrics(pipeline_metrics) IN
  /\ DOMAIN r = MetricKeys
  /\ r.performance_target_met = AtMost(r.average_total_time, 2)

PipelineEnded(p) == InPipeline(p) /\ pc[p] \in {"hv_returned", "done"}

\* C28: every call of process_voice_message ends, either with a returned
\* text or with SpeechPipelineError and with nothing else, whatever failed
\* in acquisition, recognition, learning or metrics, and it ends after at
\* most 3 recognition attempts.
C28_TextOrPipelineError ==
  /\ [](\A p \in Procs : InPipeline(p) =>
         /\ loc[p].api_calls <= 3
         /\ loc[p].pipe_outcome \in {"none", "text", "SpeechPipelineError"}
         /\ PipelineEnded(p) <=> loc[p].pipe_outcome # "none"
         /\ loc[p].pipe_outcome = "text" <=>
              (PipelineEnded(p) /\ loc[p].tr_outcome = "ok")
         /\ loc[p].pipe_outcome = "SpeechPipelineError" <=>
              (PipelineEnded(p)
               /\ (loc[p].audio_outcome = "AudioProcessingError"
                   \/ loc[p].tr_outcome = "error")))
  /\ \A p \in Procs :
       (InPipeline(p) /\ ~PipelineEnded(p)) ~> PipelineEnded(p)

\* a message ended with SpeechPipelineError after three recognition attempts
C28_Witness ==
  /\ InPipeline(1) /\ pc[1] = "done"
  /\ loc[1].api_calls = 3
  /\ loc[1].pipe_outcome = "SpeechPipelineError"
  /\ loc[1].tr_outcome = "error"

(***************************************************************************)
(* The generic exception branch of transcribe_audio.                       *)
(***************************************************************************)
\* C40: when an API call fails with an error that is neither a rate limit,
\* a timeout nor an API error, transcribe_audio raises
\* OpenAISpeechRecognitionError at once, whichever attempt it was: it makes
\* no further call and sleeps no delay.
C40_UnexpectedErrorRaisesAtOnce ==
  /\ [](\A p \in Procs :
         LET l == loc[p] IN
         \A i \in 1..Len(l.responses) :
           l.responses[i] = "Exception" =>
             /\ i = Len(l.responses)
             /\ l.api_calls = i
             /\ Len(l.delays) = i - 1
             /\ pc[p] \notin AsrPositions
             /\ l.asr_outcome = "error"
             /\ l.asr_error = OpenAISpeechRecognitionError)
  /\ [][\A p \in Procs :
         (loc'[p].api_calls = loc[p].api_calls + 1
          /\ loc'[p].responses = Append(loc[p].responses, "Exception"))
           => /\ pc'[p] = AfterTranscribeAudio(loc[p])
              /\ loc'[p].delays = loc[p].delays
              /\ loc'[p].asr_outcome = "error"]_vars

\* the second attempt, made after a timeout, failed with another exception
\* and the call has raised
C40_Witness ==
  /\ loc[1].entry = "transcribe_audio"
  /\ pc[1] = "done"
  /\ loc[1].responses = <<"APITimeoutError", "Exception">>
  /\ loc[1].delays = <<1>>
  /\ loc[1].asr_error = OpenAISpeechRecognitionError

(***************************************************************************)
(* Duration estimate of analyze_file_metadata.                             *)
(***************************************************************************)
AnalyzeDone(p) == loc[p].entry = "analyze_file_metadata" /\ pc[p] = "done"

\* a duration lies in [0.1, 600] seconds
InClampRange(d) == d.den <= 10 * d.num /\ d.num <= 600 * d.den

\* d is size / bps clamped to [0.1, 600]
IsClampedEstimate(d, size, bps) ==
  IF 10 * size < bps THEN d.num * 10 = d.den
  ELSE IF size > 600 * bps THEN d.num = 600 * d.den
  ELSE d = Ratio(size, bps)

\* C31 as stated: every FileMetadata returned by analyze_file_metadata has
\* estimated_duration within [0.1, 600] seconds.
C31_DurationAlwaysInRange ==
  \A p \in Procs : AnalyzeDone(p) => InClampRange(loc[p].estimated_duration)

\* C31: a FileMetadata returned by a lookup that succeeded has
\* estimated_duration within [0.1, 600] seconds, equal to the byte size
\* divided by the bytes per second of its format (ogg 64, mp3 128, mp4 96,
\* wav 1411 kbps, any other format 96 kbps) clamped to that range; the
\* fallback metadata of a failed lookup has size 0 and estimated_duration 0.
C31_DurationClampedWhenAnalyzed ==
  \A p \in Procs : AnalyzeDone(p) =>
    LET l == loc[p]
        d == l.estimated_duration IN
    IF l.meta_ok
    THEN /\ InClampRange(d)
         /\ l.meta.size = l.tg_file.file_size
         /\ IsClampedEstimate(d, l.meta.size,
                CASE l.meta.format = "ogg" -> 8192
                  [] l.meta.format = "mp3" -> 16384
                  [] l.meta.format = "wav" -> 180608
                  [] OTHER -> 12288)
         /\ (l.meta.format = "ogg" /\ l.meta.size = 1048576) => d.num = 128 * d.den
    ELSE l.meta.size = 0 /\ d.num = 0

\* the 1,048,576-byte ogg file has been analyzed: 128 seconds
C31_Witness ==
  /\ AnalyzeDone(1) /\ loc[1].meta_ok
  /\ loc[1].meta.format = "ogg" /\ loc[1].meta.size = 1048576
  /\ loc[1].estimated_duration.num = 128 * loc[1].estimated_duration.den

(***************************************************************************)
(* Cache writes of process_audio.                                          *)
(***************************************************************************)
InProcessAudio(p) == loc[p].entry = "process_audio"
ProcessAudioDone(p) == InProcessAudio(p) /\ pc[p] = "done"

\* the writes of one call: none before step 4, none on a hit or a failed
\* fetch, and each step changes at most one tier, at the key of the call
AtMostOneTierWritten ==
  /\ [](\A p \in Procs : InProcessAudio(p) =>
         /\ pc[p] \in {"pa_analyze", "pa_cache_get", "pa_fetch", "pa_cache_set"}
              => loc[p].wrote = "none"
         /\ (loc[p].cache_hit \/ loc[p].fetch = "failed") => loc[p].wrote = "none"
         /\ loc[p].wrote = "redis" =>
              (loc[p].redis_set = "ok" /\ audio_redis[loc[p].file_id] = loc[p].audio)
         /\ loc[p].wrote = "memory" =>
              (loc[p].redis_set # "ok" /\ memory_cache[loc[p].file_id] = loc[p].audio))
  /\ [][\A p \in Procs : InProcessAudio(p) =>
         /\ (audio_redis' # audio_redis \/ memory_cache' # memory_cache) =>
              /\ pc[p] = "pa_cache_set" /\ pc'[p] = "done"
              /\ audio_redis' = audio_redis \/ memory_cache' = memory_cache
              /\ \A f \in FileIds \ {loc[p].file_id} :
                   audio_redis'[f] = audio_redis[f]
                   /\ memory_cache'[f] = memory_cache[f]
         /\ audio_redis' # audio_redis => loc'[p].wrote = "redis"
         /\ memory_cache' # memory_cache => loc'[p].wrote = "memory"]_vars

\* C32 as stated: at most one cache write per call, none on a hit or a
\* failed fetch, and on a miss with a successful fetch exactly one set that
\* lands in the primary store or, failing that, in the in-process map.
C32_OneWritePerCall ==
  /\ AtMostOneTierWritten
  /\ [](\A p \in Procs :
         (ProcessAudioDone(p) /\ ~loc[p].cache_hit /\ loc[p].fetch = "ok") =>
           loc[p].wrote \in {"redis", "memory"})

\* C32: at most one cache write per call, none on a hit or a failed fetch;
\* on a miss with a successful fetch exactly one set is made, which lands
\* in the primary store or, failing that, in the in-process map when the
\* map holds fewer than 10 entries, never in both, and lands nowhere when
\* the primary store did not take it and the map holds 10 entries.
C32_OneWritePerCallUnlessFull ==
  /\ AtMostOneTierWritten
  /\ [](\A p \in Procs :
         (ProcessAudioDone(p) /\ ~loc[p].cache_hit /\ loc[p].fetch = "ok") =>
           /\ loc[p].wrote \in {"redis", "memory", "dropped"}
           /\ loc[p].wrote = "redis" <=> loc[p].redis_set = "ok"
           /\ loc[p].wrote = "dropped" =>
                (loc[p].redis_set # "ok" /\ MemoryCacheSize = MemoryCacheLimit))
  /\ [][\A p \in Procs :
         (InProcessAudio(p) /\ pc[p] = "pa_cache_set" /\ pc'[p] = "done"
          /\ loc'[p].redis_set # "ok") =>
           /\ loc'[p].wrote = "dropped" <=> MemoryCacheSize = MemoryCacheLimit
           /\ loc'[p].wrote = "dropped" =>
                (audio_redis' = audio_redis /\ memory_cache' = memory_cache)]_vars

\* the primary store refused the set and the in-process map took it
C32_Witness ==
  /\ ProcessAudioDone(1)
  /\ loc[1].fetch = "ok" /\ loc[1].redis_set = "failed"
  /\ loc[1].wrote = "memory"
  /\ memory_cache[loc[1].file_id] = loc[1].audio
  /\ ~audio_redis[loc[1].file_id].present

CacheCallDone(p) == loc[p].entry \in {"cache_get", "cache_set"} /\ pc[p] = "done"

\* C33: a get or set call in which the configured primary store completed
\* without error, hit or miss, neither reads nor writes the in-process map.
C33_MemoryOnlyOnStoreError ==
  \A p \in Procs : CacheCallDone(p) =>
    /\ loc[p].redis_get = "ok" => ~loc[p].mem_read
    /\ loc[p].redis_set = "ok" => loc[p].wrote # "memory"

(***************************************************************************)
(* Staleness of the language preference.                                   *)
(***************************************************************************)
\* the language of the user's most recent update: update_user_language
\* always ends by storing its record in the in-process map (line 146)
MostRecentLanguage(user_id) ==
  IF lang_memory[user_id].present THEN lang_memory[user_id].language ELSE NoLang

\* C37: after any sequence of update_user_language calls with any pattern
\* of primary-store failures, get_user_language returns either absent or
\* the language of the user's most recent update, never the language of an
\* older record that a later update replaced.
C37_NeverReturnsReplacedLanguage ==
  \A p \in Procs : GetDone(p) =>
    loc[p].lang_result \in {NoLang, MostRecentLanguage(loc[p].user_id)}

(***************************************************************************)
(* Effects of a failing process_voice_message.                             *)
(***************************************************************************)
PipelineFailed(p) ==
  InPipeline(p) /\ loc[p].pipe_outcome = "SpeechPipelineError"

\* the step in which process_voice_message raises
FailingStep(p) == InPipeline(p) /\ ~PipelineFailed(p) /\ PipelineFailed(p)'

\* C39: a process_voice_message call that fails, in acquisition or after
\* all recognition attempts failed, leaves every language preference, the
\* monitor's counters, success_count and the accumulated times unchanged
\* and adds exactly 1 to total_processed and to error_count.  Stated on the
\* steps of a call: the preferences, the monitor and the pipeline counters
\* change only in a call whose recognition has succeeded, such a call does
\* not fail, and the failing step changes the two counters only.
C39_FailureOnlyCountsError ==
  /\ [](\A p \in Procs :
         PipelineFailed(p) =>
           /\ loc[p].asr_outcome # "ok" /\ loc[p].tr_outcome # "ok"
           /\ loc[p].audio_outcome = "AudioProcessingError"
                \/ loc[p].tr_outcome = "error")
  /\ [][\A p \in Procs : InPipeline(p) =>
         /\ (<<lang_redis, lang_memory, monitor>>' # <<lang_redis, lang_memory, monitor>>)
              => (loc[p].asr_outcome = "ok" /\ pipeline_metrics' = pipeline_metrics)
         /\ (pipeline_metrics' # pipeline_metrics /\ ~FailingStep(p))
              => (loc[p].tr_outcome = "ok" /\ loc'[p].pipe_outcome = "text")
         /\ FailingStep(p) =>
              /\ pipeline_metrics' =
                   [pipeline_metrics EXCEPT !.total_processed = @ + 1,
                                            !.error_count = @ + 1]
              /\ UNCHANGED <<lang_redis, lang_memory, monitor>>
         /\ PipelineFailed(p) => UNCHANGED <<pipeline_metrics, lang_redis,
                                             lang_memory, monitor>>]_vars

\* a first message failed after three recognition attempts: one error is
\* counted and nothing else has changed
C39_Witness ==
  /\ PipelineFailed(1) /\ pc[1] = "done"
  /\ loc[1].api_calls = 3
  /\ pipeline_metrics = [total_processed |-> 1, total_time |-> 0,
                         audio_processing_time |-> 0,
                         speech_recognition_time |-> 0,
                         success_count |-> 0, error_count |-> 1]
  /\ monitor.total_requests = 0
  /\ \A u \in Users : ~lang_memory[u].present /\ ~lang_redis[u].present

(***************************************************************************)
(* Concurrent calls.                                                       *)
(***************************************************************************)
\* the record after update a and then update b on a user without preference
UpdatedTwice(a, b) ==
  NewLangData(NewLangData(NoLangData, a.detected_language, a.confidence),
              b.detected_language, b.confidence)

\* the first two calls were made by the two tasks for the same user, may
\* have overlapped, and both have returned
BothUpdatesDone ==
  /\ ncalls = 2
  /\ UpdateDone(1) /\ UpdateDone(2)
  /\ loc[1].user_id = loc[2].user_id

\* C36: when two update_user_language calls for the same user run
\* concurrently, the preference stored afterwards is the result of applying
\* the two updates one after the other in some order.
C36_ConcurrentUpdatesSerialize ==
  BothUpdatesDone =>
    lang_memory[loc[1].user_id] \in {UpdatedTwice(loc[1], loc[2]),
                                     UpdatedTwice(loc[2], loc[1])}

\* process_audio has returned bytes to task p
AudioReturnedTo(p) == ProcessAudioDone(p) /\ loc[p].audio_outcome = "ok"

\* C34: two process_audio calls for the same attachment id that run
\* concurrently return the same bytes, whether one of them or both fetched,
\* and an entry that either tier of the cache then holds for the id is
\* exactly those bytes.
C34_SameBytesForSameAttachment ==
  /\ \A p, q \in Procs :
       (AudioReturnedTo(p) /\ AudioReturnedTo(q)
          /\ loc[p].file_id = loc[q].file_id) => loc[p].audio = loc[q].audio
  /\ \A p \in Procs :
       AudioReturnedTo(p) =>
         /\ audio_redis[loc[p].file_id].present
              => audio_redis[loc[p].file_id] = loc[p].audio
         /\ memory_cache[loc[p].file_id].present
              => memory_cache[loc[p].file_id] = loc[p].audio

\* both tasks missed the cache, fetched and returned, and the id is cached
C34_Witness ==
  /\ AudioReturnedTo(1) /\ AudioReturnedTo(2)
  /\ loc[1].file_id = loc[2].file_id
  /\ loc[1].fetch = "ok" /\ loc[2].fetch = "ok"
  /\ loc[1].wrote # "none" /\ loc[2].wrote # "none"
  /\ loc[1].audio = FreshFetch(loc[1].file_id)

\* the tasks whose process_voice_message call has ended with the outcome
EndedWith(outcome) ==
  {p \in Procs : /\ loc[p].entry = "process_voice_message"
                 /\ pc[p] = "done"
                 /\ loc[p].pipe_outcome = outcome}

\* C38: in every reachable state, with process_voice_message calls running
\* concurrently, total_processed = success_count + error_count, and every
\* call that has ended has added exactly 1 to total_processed: a returned
\* text is one success, a raised SpeechPipelineError is one error, and a
\* call still running has added nothing.
C38_EveryCallCountedOnce ==
  /\ pipeline_metrics.total_processed =
       pipeline_metrics.success_count + pipeline_metrics.error_count
  /\ pipeline_metrics.success_count = Cardinality(EndedWith("text"))
  /\ pipeline_metrics.error_count = Cardinality(EndedWith("SpeechPipelineError"))
  /\ \A p \in Procs :
       (loc[p].entry = "process_voice_message" /\ pc[p] = "done")
         => loc[p].pipe_outcome \in {"text", "SpeechPipelineError"}

\* task 2 began while task 1 waited in a retry delay; task 1 returned a
\* text after its retry and task 2 failed
C38_Witness ==
  /\ EndedWith("text") = {1} /\ EndedWith("SpeechPipelineError") = {2}
  /\ loc[2].began_in_sleep /\ loc[1].api_calls > 1
  /\ pipeline_metrics.total_processed = 2

\* task q is inside a process_voice_message call
Running(q) == pc[q] \notin {"idle", "done"}

====
